---- MODULE Spec2Model ----
(***************************************************************************)
(* The interactive dashboard of xint (cmdTui and its helpers): the menu    *)
(* selection session with its raw-mode life cycle, the argument prompts,   *)
(* the subprocess run with its spinner, and the session state they share.  *)
(*                                                                         *)
(* Text the program inspects (menu input, prompt answers, child output) is *)
(* a sequence of one-character strings, so that trim, toLowerCase and the  *)
(* line splitting are computed and not assumed.  An optional field         *)
(* (`lastSearch?: string`) is None when undefined and Some(v) otherwise.   *)
(***************************************************************************)
EXTENDS Integers, Sequences, FiniteSets, TLC

VARIABLES
    isTTY,           \* input.isTTY && output.isTTY && setRawMode is a function
    pc,              \* where cmdTui is suspended
    choice,          \* the value selectOption resolved to
    activeIndex,     \* selectOption's local activeIndex
    activeIndexRef,  \* activeIndexRef.value
    rawMode,         \* the terminal's raw mode, as set by input.setRawMode
    flowing,         \* input.resume() / input.pause()
    handlers,        \* number of onKeypress listeners attached to input
    session,         \* the SessionState object
    proc,            \* the spawned child and its two pipes
    spinner,         \* the setInterval timer of runSubcommand is armed
    spinnerIndex,    \* runSubcommand's local spinnerIndex
    frame,           \* what renderInteractiveMenu last drew
    runs,            \* subprocesses spawned so far in this session
    columns,         \* output.columns ?? 120
    rows,            \* output.rows ?? 32
    uiState,         \* the UiState of the tabbed dashboard; None in cmdTui
    release,         \* the shell variables of scripts/release.sh; None in cmdTui
    api              \* the package API server and its store file; None in cmdTui

\* What no step of cmdTui writes.
fixed == <<columns, rows, uiState, release, api>>

vars == <<fixed, isTTY, pc, choice, activeIndex, activeIndexRef, rawMode, flowing,
          handlers, session, proc, spinner, spinnerIndex, frame, runs>>

---------------------------------------------------------------------------
(* Bounds of the model.                                                    *)

\* Subprocess runs in one session.
MaxRuns == 2
\* Chunks the child writes on each of its two streams during one run.
MaxChunks == 1
\* Spinner ticks during one run.
MaxTicks == 1

---------------------------------------------------------------------------
(* Text.                                                                   *)

None == <<>>
Some(v) == <<v>>
IsSome(o) == o # <<>>
Get(o) == o[1]

Whitespace == {" ", "\t", "\n", "\r"}

\* String.prototype.toLowerCase on the characters the model types.
UpperLetters ==
    <<"A", "B", "C", "D", "E", "F", "G", "H", "I", "J", "K", "L", "M",
      "N", "O", "P", "Q", "R", "S", "T", "U", "V", "W", "X", "Y", "Z">>
LowerLetters ==
    <<"a", "b", "c", "d", "e", "f", "g", "h", "i", "j", "k", "l", "m",
      "n", "o", "p", "q", "r", "s", "t", "u", "v", "w", "x", "y", "z">>

\* The lower-case letter of each capital.
LowerOf ==
    [c \in {UpperLetters[i] : i \in 1..Len(UpperLetters)} |->
        LowerLetters[CHOOSE i \in 1..Len(UpperLetters) : UpperLetters[i] = c]]

LowerChar(c) == IF c \in DOMAIN LowerOf THEN LowerOf[c] ELSE c

toLowerCase(s) == [i \in 1..Len(s) |-> LowerChar(s[i])]

RECURSIVE trimStart(_)
trimStart(s) ==
    IF s # <<>> /\ Head(s) \in Whitespace THEN trimStart(Tail(s)) ELSE s

RECURSIVE trimEnd(_)
trimEnd(s) ==
    IF s # <<>> /\ s[Len(s)] \in Whitespace
    THEN trimEnd(SubSeq(s, 1, Len(s) - 1))
    ELSE s

trim(s) == trimEnd(trimStart(s))

\* The elements of a sequence, as a set.
Range(s) == {s[i] : i \in 1..Len(s)}

---------------------------------------------------------------------------
(* The action catalog.                                                     *)

MENU_OPTIONS ==
    << [key |-> <<"1">>, label |-> "Search",
        hint |-> "keyword, topic, or boolean query",
        aliases |-> << <<"s","e","a","r","c","h">>, <<"s">> >>],
       [key |-> <<"2">>, label |-> "Trends",
        hint |-> "location name or blank for global",
        aliases |-> << <<"t","r","e","n","d","s">>, <<"t","r","e","n","d">>, <<"t">> >>],
       [key |-> <<"3">>, label |-> "Profile",
        hint |-> "username (without @)",
        aliases |-> << <<"p","r","o","f","i","l","e">>, <<"u","s","e","r">>, <<"p">> >>],
       [key |-> <<"4">>, label |-> "Thread",
        hint |-> "tweet id or tweet url",
        aliases |-> << <<"t","h","r","e","a","d">>, <<"t","h">> >>],
       [key |-> <<"5">>, label |-> "Article",
        hint |-> "article url or tweet url",
        aliases |-> << <<"a","r","t","i","c","l","e">>, <<"a">> >>],
       [key |-> <<"6">>, label |-> "Help",
        hint |-> "show full CLI help",
        aliases |-> << <<"h","e","l","p">>, <<"h">>, <<"?">> >>],
       [key |-> <<"0">>, label |-> "Exit",
        hint |-> "close interactive mode",
        aliases |-> << <<"e","x","i","t">>, <<"q","u","i","t">>, <<"q">> >> ] >>

\* MENU_OPTIONS.length
MenuLength == Len(MENU_OPTIONS)

\* Array.prototype.find over the catalog: Some(the first option whose
\* position is in hits), or None when there is none.
FirstOption(hits) ==
    IF hits = {} THEN None
    ELSE Some(MENU_OPTIONS[CHOOSE i \in hits : \A j \in hits : i <= j])

\* A lookup that compares the trimmed text as typed, without lowering it.
normalizeChoiceCaseSensitive(raw) ==
    LET value == trim(raw)
        byKey == FirstOption({i \in 1..MenuLength : MENU_OPTIONS[i].key = value})
        byAlias == FirstOption({i \in 1..MenuLength :
                                   value \in Range(MENU_OPTIONS[i].aliases)})
    IN  IF value = <<>> THEN <<>>
        ELSE IF IsSome(byKey) THEN Get(byKey).key
        ELSE IF IsSome(byAlias) THEN Get(byAlias).key
        ELSE <<>>

normalizeChoice(raw) ==
    LET value == toLowerCase(trim(raw))
        byKey == FirstOption({i \in 1..MenuLength : MENU_OPTIONS[i].key = value})
        byAlias == FirstOption({i \in 1..MenuLength :
                                   value \in Range(MENU_OPTIONS[i].aliases)})
    IN  IF value = <<>> THEN <<>>
        ELSE IF IsSome(byKey) THEN Get(byKey).key
        ELSE IF IsSome(byAlias) THEN Get(byAlias).key
        ELSE <<>>

\* The terminate sentinel: the key of the Exit option.
ExitKey == <<"0">>

\* The key and the aliases of the option at position i, and all of them.
IdentifiersOf(i) == {MENU_OPTIONS[i].key} \cup Range(MENU_OPTIONS[i].aliases)
Identifiers == UNION {IdentifiersOf(i) : i \in 1..MenuLength}

---------------------------------------------------------------------------
(* What the environment may supply.                                        *)

\* A keypress event: the (str, key) pair emitted on input.
Key(str, name, ctrl) == [str |-> str, name |-> name, ctrl |-> ctrl]

KeyUp == Key(<<"ESC", "[", "A">>, "up", FALSE)
KeyDown == Key(<<"ESC", "[", "B">>, "down", FALSE)
KeyReturn == Key(<<"\r">>, "return", FALSE)
KeyCtrlC == Key(<<"ETX">>, "c", TRUE)
KeyChar(c) == Key(<<c>>, LowerChar(c), FALSE)

\* The same text typed in capitals.
UpperOf ==
    [c \in {LowerLetters[i] : i \in 1..Len(LowerLetters)} |->
        UpperLetters[CHOOSE i \in 1..Len(LowerLetters) : LowerLetters[i] = c]]
UpperChar(c) == IF c \in DOMAIN UpperOf THEN UpperOf[c] ELSE c
toUpperCase(s) == [i \in 1..Len(s) |-> UpperChar(s[i])]

KeyEvents ==
    {KeyUp, KeyDown, KeyReturn, KeyCtrlC}
        \cup {KeyChar(c) : c \in {"S", "q", "c", "6"}}

\* Keys struck while a subprocess runs.
InterruptKeys == {KeyCtrlC, KeyChar("q")}

\* Lines typed at the text menu of the non-interactive fallback.
MenuLines ==
    { <<>>, <<" ", "S", " ">>, <<"t","r","e","n","d">>, <<"3">>, <<"t","h">>,
      <<"5">>, <<"?">>, <<"Q">>, <<"0">>, <<"x">> }
        \cup Identifiers
        \cup {toUpperCase(id) : id \in Identifiers}
        \cup {<<" ", "\t">> \o id \o <<" ">> : id \in Identifiers}
        \cup { <<" ">>, <<"7">>, <<"1", "2">>, <<"1", " ", "2">>, <<"s", "e">>,
               <<"t", "r", "e", "n", "d", "s", "s">>, <<"q", "!">>,
               <<"e", "x", "i", "t", " ", "n", "o", "w">> }

\* Lines typed at an argument prompt.
PromptLines == { <<>>, <<" ", "@", "a", " ">> }

\* Chunks the child writes on its standard output and standard error.
StdoutChunks == { <<"h", "i", " ", "\r", "\n", "\n", "o", "k", "\n">> }
StderrChunks == { <<"n", "o", "\n", "g", "o", "\n">> }

\* Exit codes of the child.
ExitCodes == {0, 1}

---------------------------------------------------------------------------
(* Session state and rendering.                                            *)

InitialSession ==
    [ lastSearch |-> None, lastLocation |-> None, lastUsername |-> None,
      lastTweetRef |-> None, lastArticleUrl |-> None,
      lastCommand |-> None, lastStatus |-> None, lastOutputLines |-> <<>> ]

\* renderInteractiveMenu(activeIndex, session): the frame is determined by
\* the highlighted entry and the session it was drawn from.
\* A slice that keeps the whole array.
LastNKeepsAll(s, n) == s

\* Array.prototype.slice(-n)
LastN(s, n) == IF Len(s) <= n THEN s ELSE SubSeq(s, Len(s) - n + 1, Len(s))

\* The larger of two numbers: Math.max.
Max(a, b) == IF a >= b THEN a ELSE b

\* String.prototype.repeat
RECURSIVE Repeat(_, _)
Repeat(c, n) ==
    IF n <= 0 THEN ""
    ELSE IF n % 2 = 0 THEN LET half == Repeat(c, n \div 2) IN half \o half
    ELSE c \o Repeat(c, n - 1)

\* The string made of a sequence of characters.
RECURSIVE Str(_)
Str(chars) == IF chars = <<>> THEN "" ELSE Head(chars) \o Str(Tail(chars))

\* Array.prototype.join(", ")
RECURSIVE JoinComma(_)
JoinComma(texts) ==
    IF texts = <<>> THEN ""
    ELSE IF Len(texts) = 1 THEN Str(texts[1])
    ELSE Str(texts[1]) \o ", " \o JoinComma(Tail(texts))

clipText(value, width) ==
    IF width <= 0 THEN ""
    ELSE IF Len(value) <= width THEN value
    ELSE IF width <= 3 THEN Repeat(".", width)
    ELSE SubSeq(value, 1, width - 3) \o "..."

\* A run of spaces longer than any width considered, of which padEnd takes
\* as many as it needs.
Blank == Repeat(" ", 256)

\* clipText(value, width).padEnd(width, " ")
padText(value, width) ==
    LET clipped == clipText(value, width)
    IN  IF Len(clipped) >= width THEN clipped
        ELSE clipped \o SubSeq(Blank, 1, width - Len(clipped))

\* The two lines of the option at position i (index i - 1 of MENU_OPTIONS);
\* ">" stands for the pointer character, which is one column wide as well.
OptionLines(i, index) ==
    LET option == MENU_OPTIONS[i]
        pointer == IF i - 1 = index THEN ">" ELSE " "
        aliases == IF Len(option.aliases) > 0
                   THEN " (" \o JoinComma(option.aliases) \o ")" ELSE ""
    IN  << pointer \o " " \o Str(option.key) \o ") " \o option.label \o aliases,
           "    " \o option.hint >>

RECURSIVE OptionLinesFrom(_, _)
OptionLinesFrom(i, index) ==
    IF i > MenuLength THEN <<>>
    ELSE OptionLines(i, index) \o OptionLinesFrom(i + 1, index)

buildLeftPane(index) ==
    << "=== xint interactive ===", "Use Up/Down + Enter. Press q to exit.", "" >>
        \o OptionLinesFrom(1, index)

\* buildLeftPane for every index of the catalog.
LeftPanes == [index \in 0..(MenuLength - 1) |-> buildLeftPane(index)]

\* `xint search ${query}` as one string.
CommandText(command) ==
    IF command[2] = <<>> THEN command[1] ELSE command[1] \o " " \o Str(command[2])

buildRightPane(s) ==
    << "=== last run ===",
       "command: " \o (IF IsSome(s.lastCommand) THEN CommandText(Get(s.lastCommand)) ELSE "-"),
       "status: " \o (IF IsSome(s.lastStatus) THEN Get(s.lastStatus) ELSE "-"),
       "",
       "output:" >>
        \o (IF Len(s.lastOutputLines) = 0 THEN << "(none yet)" >>
            ELSE [i \in 1..Len(s.lastOutputLines) |-> Str(s.lastOutputLines[i])])

\* Math.max(42, Math.floor(columns * 0.45))
LeftWidth(cols) == Max(42, (cols * 45) \div 100)
\* Math.max(24, columns - leftWidth - 3)
RightWidth(cols) == Max(24, cols - LeftWidth(cols) - 3)
\* Math.max(14, rows - 1)
TotalRows(rws) == Max(14, rws - 1)

\* Rows that carry the spinner's counter in their first cell.
FrameRowsCounted(index, s, cols, rws) ==
    [r \in 1..TotalRows(rws) |->
        [text |-> padText(ToString(spinnerIndex), LeftWidth(cols)) \o " | "
                      \o padText("", RightWidth(cols)),
         highlighted |-> FALSE]]

\* The rows one call of renderInteractiveMenu writes after clearing the
\* screen: for each the printable text, and whether it is wrapped in the
\* highlight sequences, which occupy no column.
FrameRows(index, s, cols, rws) ==
    LET Rows(leftLines, rightLines) ==
            [r \in 1..TotalRows(rws) |->
                LET leftRaw == IF r <= Len(leftLines) THEN leftLines[r] ELSE ""
                    rightRaw == IF r <= Len(rightLines) THEN rightLines[r] ELSE ""
                IN  [text |-> padText(leftRaw, LeftWidth(cols)) \o " | "
                                  \o padText(rightRaw, RightWidth(cols)),
                     highlighted |-> Len(leftRaw) >= 2 /\ SubSeq(leftRaw, 1, 2) = "> "]]
    IN  CHOOSE written \in
            {Rows(leftLines, rightLines) :
                leftLines \in {LeftPanes[index]},
                rightLines \in {LastN(buildRightPane(s), TotalRows(rws))}} : TRUE

\* A frame is recorded by what renderInteractiveMenu read when it drew it:
\* its two arguments and the size of the terminal.
renderInteractiveMenu(index, s) ==
    Some([activeIndex |-> index, session |-> s, columns |-> columns, rows |-> rows])

\* The rows of a recorded frame.
Written(f) == FrameRows(f.activeIndex, f.session, f.columns, f.rows)

\* output.write("\x1b[2J\x1b[H"): an empty screen.
ClearedScreen == None

---------------------------------------------------------------------------
(* The subprocess runner.                                                  *)

NoProc ==
    [ state |-> "none", args |-> <<>>, exitCode |-> 0,
      stdout |-> <<>>, stderr |-> <<>>,
      stdoutChunks |-> 0, stderrChunks |-> 0,
      stdoutEnded |-> FALSE, stderrEnded |-> FALSE ]

\* Bun.spawn({cmd: [execPath, scriptPath, ...args], stdout: "pipe", stderr: "pipe"})
Spawned(args) == [NoProc EXCEPT !.state = "running", !.args = args]

spinnerFrames == <<"|", "/", "-", "\\">>

\* How many lines of a run are kept: combined.slice(-120).
OutputCap == 120

\* 1..Len(s) as a sequence.
Indices(s) == [i \in 1..Len(s) |-> i]

\* String.prototype.replace(/\r\n/g, "\n"): every "\r" standing directly before
\* a "\n" is removed.
ReplaceCRLF(s) ==
    LET kept == SelectSeq(Indices(s),
                    LAMBDA i : ~(s[i] = "\r" /\ i < Len(s) /\ s[i + 1] = "\n"))
    IN  [k \in 1..Len(kept) |-> s[kept[k]]]

\* String.prototype.split("\n"): the pieces between the separators, one more
\* piece than there are separators.
SplitLines(s) ==
    LET at == SelectSeq(Indices(s), LAMBDA i : s[i] = "\n")
        from(k) == IF k = 1 THEN 1 ELSE at[k - 1] + 1
        to(k) == IF k = Len(at) + 1 THEN Len(s) ELSE at[k] - 1
    IN  [k \in 1..(Len(at) + 1) |-> SubSeq(s, from(k), to(k))]

decodeLines(bytes) ==
    IF Len(bytes) = 0 THEN <<>>
    ELSE LET pieces == SplitLines(ReplaceCRLF(bytes))
             trimmed == [i \in 1..Len(pieces) |-> trimEnd(pieces[i])]
         IN  SelectSeq(trimmed, LAMBDA line : Len(line) > 0)

StderrTag == <<"[", "s", "t", "d", "e", "r", "r", "]", " ">>

\* A status that reports every finished run as a success.
ExitStatusAlwaysSuccess(exitCode) == "success"

\* exitCode === 0 ? "success" : `failed (exit ${exitCode})`
ExitStatus(exitCode) ==
    IF exitCode = 0 THEN "success"
    ELSE "failed (exit " \o ToString(exitCode) \o ")"

\* A result whose lines are in the reverse of the order read.
RunResultNewestFirst(p) ==
    LET stdoutLines == decodeLines(p.stdout)
        decoded == decodeLines(p.stderr)
        stderrLines == [i \in 1..Len(decoded) |-> StderrTag \o decoded[i]]
        combined == stdoutLines \o stderrLines
        reversed == [i \in 1..Len(combined) |-> combined[Len(combined) + 1 - i]]
    IN  [status |-> ExitStatus(p.exitCode), outputLines |-> LastN(reversed, OutputCap)]

\* What runSubcommand returns once its await has settled.
RunResult(p) ==
    LET stdoutLines == decodeLines(p.stdout)
        decoded == decodeLines(p.stderr)
        stderrLines == [i \in 1..Len(decoded) |-> StderrTag \o decoded[i]]
        combined == stdoutLines \o stderrLines
    IN  [status |-> ExitStatus(p.exitCode), outputLines |-> LastN(combined, OutputCap)]

\* An await on proc.exited alone.
RunSettledOnExit == proc.state = "exited"

\* await Promise.all([stdoutPromise, stderrPromise, proc.exited]) has settled:
\* both pipes were read to their end and the child has exited.
RunSettled ==
    proc.state = "exited" /\ proc.stdoutEnded /\ proc.stderrEnded

---------------------------------------------------------------------------
(* Prompt helpers.                                                         *)

\* A requireInput that accepts every value.
HasInputAlways(value) == TRUE

\* requireInput throws `${label} is required.` exactly when this is false.
HasInput(value) == trim(value) # <<>>

\* requireInput(value, label), when it does not throw.
requireInput(value) == trim(value)

\* promptWithDefault(value, previous)
promptWithDefault(value, previous) ==
    IF trim(value) # <<>> THEN trim(value)
    ELSE IF IsSome(previous) THEN Get(previous) ELSE <<>>

\* String.prototype.replace(/^@/, "")
StripAt(s) == IF s # <<>> /\ Head(s) = "@" THEN Tail(s) ELSE s

\* The session field that holds the last value entered for a choice.
FieldOf(c) ==
    CASE c = <<"1">> -> "lastSearch"
      [] c = <<"2">> -> "lastLocation"
      [] c = <<"3">> -> "lastUsername"
      [] c = <<"4">> -> "lastTweetRef"
      [] c = <<"5">> -> "lastArticleUrl"

\* The subcommand a choice runs.
SubcommandOf(c) ==
    CASE c = <<"1">> -> "search"
      [] c = <<"2">> -> "trends"
      [] c = <<"3">> -> "profile"
      [] c = <<"4">> -> "thread"
      [] c = <<"5">> -> "article"

\* The label requireInput puts in its error message.
LabelOf(c) ==
    CASE c = <<"1">> -> "Query"
      [] c = <<"3">> -> "Username"
      [] c = <<"4">> -> "Tweet ID/URL"
      [] c = <<"5">> -> "Article URL"

\* `xint search ${query}`: the fixed words and the interpolated argument.
CommandLine(sub, arg) == <<"xint " \o sub, arg>>

---------------------------------------------------------------------------
(* The state after cmdTui has created its session and readline interface.  *)

\* The program state when cmdTui enters its loop.
Start ==
    /\ isTTY \in BOOLEAN
    /\ pc = "loop"
    /\ choice = <<>>
    /\ activeIndex = 0
    /\ activeIndexRef = 0
    /\ rawMode = FALSE
    /\ flowing = FALSE
    /\ handlers = 0
    /\ session = InitialSession
    /\ proc = NoProc
    /\ spinner = FALSE
    /\ spinnerIndex = 0
    /\ frame = None
    /\ runs = 0

\* The terminal size renderInteractiveMenu assumes when the terminal reports
\* none.
DefaultColumns == 120
DefaultRows == 32

Init ==
    /\ Start
    /\ columns = DefaultColumns
    /\ rows = DefaultRows
    /\ uiState = None
    /\ release = None
    /\ api = None

---------------------------------------------------------------------------
(* selectOption.                                                           *)

\* The non-interactive fallback: the menu is printed as text and one line
\* is awaited with rl.question.
\* A fallback that switches the terminal to raw mode before asking.
SelectOptionTextRawMode ==
    /\ pc = "loop"
    /\ ~isTTY
    /\ rawMode' = TRUE
    /\ pc' = "selectLine"
    /\ UNCHANGED <<fixed, isTTY, choice, activeIndex, activeIndexRef, flowing,
                   handlers, session, proc, spinner, spinnerIndex, frame, runs>>

SelectOptionText ==
    /\ pc = "loop"
    /\ ~isTTY
    /\ pc' = "selectLine"
    /\ UNCHANGED <<fixed, isTTY, choice, activeIndex, activeIndexRef, rawMode, flowing,
                   handlers, session, proc, spinner, spinnerIndex, frame, runs>>

\* The line typed at the text menu resolves the selection.
SelectLine(line) ==
    /\ pc = "selectLine"
    /\ choice' = normalizeChoice(line)
    /\ pc' = "chosen"
    /\ UNCHANGED <<fixed, isTTY, activeIndex, activeIndexRef, rawMode, flowing,
                   handlers, session, proc, spinner, spinnerIndex, frame, runs>>

\* The interactive menu: raw mode on, input resumed, onKeypress attached,
\* first frame drawn; the promise stays pending.
SelectOptionRaw ==
    /\ pc = "loop"
    /\ isTTY
    /\ activeIndex' = activeIndexRef
    /\ rawMode' = TRUE
    /\ flowing' = TRUE
    /\ handlers' = handlers + 1
    /\ frame' = renderInteractiveMenu(activeIndexRef, session)
    /\ pc' = "menu"
    /\ UNCHANGED <<fixed, isTTY, choice, activeIndexRef, session, proc, spinner,
                   spinnerIndex, runs>>

\* A cleanup that forgets input.setRawMode(false).
cleanupKeepsRawMode ==
    /\ handlers' = IF handlers > 0 THEN handlers - 1 ELSE 0
    /\ rawMode' = rawMode
    /\ flowing' = FALSE

\* A cleanup that forgets input.off("keypress", onKeypress).
cleanupKeepsListener ==
    /\ handlers' = handlers
    /\ rawMode' = FALSE
    /\ flowing' = FALSE

\* A cleanup that only pauses the input.
cleanupOnlyPauses ==
    /\ handlers' = handlers
    /\ rawMode' = rawMode
    /\ flowing' = FALSE

\* cleanup(): input.off("keypress", onKeypress); setRawMode(false); pause().
cleanup ==
    /\ handlers' = IF handlers > 0 THEN handlers - 1 ELSE 0
    /\ rawMode' = FALSE
    /\ flowing' = FALSE

\* A confirm that reads the shared reference, which is only written when a
\* selection resolves, in place of the handler's own index.
SelectedKeyFromRef(index) ==
    IF activeIndexRef + 1 \in 1..MenuLength
    THEN MENU_OPTIONS[activeIndexRef + 1].key ELSE ExitKey

\* MENU_OPTIONS[activeIndex]?.key ?? "0"
SelectedKey(index) ==
    IF index + 1 \in 1..MenuLength THEN MENU_OPTIONS[index + 1].key ELSE ExitKey

\* An Up that does not wrap: (activeIndex - 1) % length is -1 on the first entry.
MoveUpNoWrap(index) == index - 1

MoveUp(index) == (index - 1 + MenuLength) % MenuLength

MoveDown(index) == (index + 1) % MenuLength

\* resolve(value): selectOption's promise settles and cmdTui resumes.
Resolve(value) == choice' = value /\ pc' = "chosen"

\* The onKeypress listener of selectOption, called with one keypress event.
onKeypress(ev) ==
    IF ev.ctrl /\ ev.name = "c" THEN
        /\ cleanup
        /\ Resolve(ExitKey)
        /\ UNCHANGED <<activeIndex, activeIndexRef, frame>>
    ELSE IF ev.name = "up" THEN
        /\ activeIndex' = MoveUp(activeIndex)
        /\ frame' = renderInteractiveMenu(MoveUp(activeIndex), session)
        /\ UNCHANGED <<pc, choice, activeIndexRef, rawMode, flowing, handlers>>
    ELSE IF ev.name = "down" THEN
        /\ activeIndex' = MoveDown(activeIndex)
        /\ frame' = renderInteractiveMenu(MoveDown(activeIndex), session)
        /\ UNCHANGED <<pc, choice, activeIndexRef, rawMode, flowing, handlers>>
    ELSE IF ev.name = "return" THEN
        /\ activeIndexRef' = activeIndex
        /\ cleanup
        /\ frame' = ClearedScreen
        /\ Resolve(SelectedKey(activeIndex))
        /\ UNCHANGED activeIndex
    ELSE IF normalizeChoice(ev.str) # <<>> THEN
        /\ activeIndexRef' = activeIndex
        /\ cleanup
        /\ frame' = ClearedScreen
        /\ Resolve(normalizeChoice(ev.str))
        /\ UNCHANGED activeIndex
    ELSE
        UNCHANGED <<pc, choice, activeIndex, activeIndexRef, rawMode, flowing,
                    handlers, frame>>

\* A keypress event is emitted while the menu's listener is attached.
Keypress(ev) ==
    /\ pc = "menu"
    /\ handlers > 0
    /\ flowing
    /\ onKeypress(ev)
    /\ UNCHANGED <<fixed, isTTY, session, proc, spinner, spinnerIndex, runs>>

\* A key is struck during a run: no listener is attached, nothing handles it.
KeypressUnheard(ev) ==
    /\ pc = "running"
    /\ handlers = 0
    /\ UNCHANGED vars

---------------------------------------------------------------------------
(* cmdTui: what follows the selection.                                     *)

\* A loop that treats the terminate sentinel like an unknown option.
ExitContinues ==
    /\ pc = "chosen"
    /\ choice = ExitKey
    /\ pc' = "loop"
    /\ UNCHANGED <<fixed, isTTY, choice, activeIndex, activeIndexRef, rawMode, flowing,
                   handlers, session, proc, spinner, spinnerIndex, frame, runs>>

\* if (choice === "0") break;  then finally rl.close().
Exit ==
    /\ pc = "chosen"
    /\ choice = ExitKey
    /\ pc' = "exited"
    /\ UNCHANGED <<fixed, isTTY, choice, activeIndex, activeIndexRef, rawMode, flowing,
                   handlers, session, proc, spinner, spinnerIndex, frame, runs>>

\* if (!choice) { console.log("[tui] Unknown option..."); continue; }
UnknownOption ==
    /\ pc = "chosen"
    /\ choice = <<>>
    /\ pc' = "loop"
    /\ UNCHANGED <<fixed, isTTY, choice, activeIndex, activeIndexRef, rawMode, flowing,
                   handlers, session, proc, spinner, spinnerIndex, frame, runs>>

\* Cases "1" to "5" first ask for the argument with rl.question.
AskArgument ==
    /\ pc = "chosen"
    /\ choice \in {<<"1">>, <<"2">>, <<"3">>, <<"4">>, <<"5">>}
    /\ pc' = "prompt"
    /\ UNCHANGED <<fixed, isTTY, choice, activeIndex, activeIndexRef, rawMode, flowing,
                   handlers, session, proc, spinner, spinnerIndex, frame, runs>>

\* runSubcommand up to its await: the child is spawned and the spinner armed.
StartRun(args) ==
    /\ runs < MaxRuns
    /\ proc' = Spawned(args)
    /\ spinner' = TRUE
    /\ spinnerIndex' = 0
    /\ runs' = runs + 1
    /\ pc' = "running"

\* The argument a prompt answer yields for a choice, before requireInput.
Answered(c, line) == promptWithDefault(line, session[FieldOf(c)])

\* The choices whose argument is required.
Required == {<<"1">>, <<"3">>, <<"4">>, <<"5">>}

\* The argument of the run: requireInput's result, without a leading @ for
\* the username; the location as answered.
Argument(c, line) ==
    IF c = <<"3">> THEN StripAt(requireInput(Answered(c, line)))
    ELSE IF c \in Required THEN requireInput(Answered(c, line))
    ELSE Answered(c, line)

\* The answer to the prompt arrives and the case body runs up to the await
\* inside runSubcommand.
AnswerPrompt(line) ==
    /\ pc = "prompt"
    /\ choice \in Required => HasInput(Answered(choice, line))
    /\ LET arg == Argument(choice, line)
           sub == SubcommandOf(choice)
       IN  /\ session' = [session EXCEPT
                   ![FieldOf(choice)] = Some(arg),
                   !.lastCommand =
                       IF choice = <<"2">> /\ arg = <<>>
                       THEN Some(CommandLine(sub, <<>>))
                       ELSE Some(CommandLine(sub, arg))]
           /\ StartRun(IF choice = <<"2">> /\ arg = <<>>
                       THEN <<sub>> ELSE <<sub, arg>>)
    /\ UNCHANGED <<fixed, isTTY, choice, activeIndex, activeIndexRef, rawMode, flowing,
                   handlers, frame>>

\* requireInput throws; the catch prints the message and the loop goes on.
RequiredFieldBlankEndsLoop(line) ==
    /\ pc = "prompt"
    /\ choice \in Required
    /\ ~HasInput(Answered(choice, line))
    /\ pc' = "exited"
    /\ UNCHANGED <<fixed, isTTY, choice, activeIndex, activeIndexRef, rawMode, flowing,
                   handlers, session, proc, spinner, spinnerIndex, frame, runs>>

RequiredFieldBlank(line) ==
    /\ pc = "prompt"
    /\ choice \in Required
    /\ ~HasInput(Answered(choice, line))
    /\ pc' = "loop"
    /\ UNCHANGED <<fixed, isTTY, choice, activeIndex, activeIndexRef, rawMode, flowing,
                   handlers, session, proc, spinner, spinnerIndex, frame, runs>>

\* case "6": the help run needs no argument.
RunHelp ==
    /\ pc = "chosen"
    /\ choice = <<"6">>
    /\ session' = [session EXCEPT !.lastCommand = Some(CommandLine("--help", <<>>))]
    /\ StartRun(<<"--help">>)
    /\ UNCHANGED <<fixed, isTTY, choice, activeIndex, activeIndexRef, rawMode, flowing,
                   handlers, frame>>

---------------------------------------------------------------------------
(* The run: the child, the spinner, the completion.                        *)

ChildWritesStdout(chunk) ==
    /\ proc.state = "running"
    /\ ~proc.stdoutEnded
    /\ proc.stdoutChunks < MaxChunks
    /\ proc' = [proc EXCEPT !.stdout = @ \o chunk, !.stdoutChunks = @ + 1]
    /\ UNCHANGED <<fixed, isTTY, pc, choice, activeIndex, activeIndexRef, rawMode,
                   flowing, handlers, session, spinner, spinnerIndex, frame, runs>>

ChildWritesStderr(chunk) ==
    /\ proc.state = "running"
    /\ ~proc.stderrEnded
    /\ proc.stderrChunks < MaxChunks
    /\ proc' = [proc EXCEPT !.stderr = @ \o chunk, !.stderrChunks = @ + 1]
    /\ UNCHANGED <<fixed, isTTY, pc, choice, activeIndex, activeIndexRef, rawMode,
                   flowing, handlers, session, spinner, spinnerIndex, frame, runs>>

\* The read end of a pipe reaches end of file: the child closed its end, or
\* exited.
StdoutEnds ==
    /\ proc.state # "none"
    /\ ~proc.stdoutEnded
    /\ proc' = [proc EXCEPT !.stdoutEnded = TRUE]
    /\ UNCHANGED <<fixed, isTTY, pc, choice, activeIndex, activeIndexRef, rawMode,
                   flowing, handlers, session, spinner, spinnerIndex, frame, runs>>

StderrEnds ==
    /\ proc.state # "none"
    /\ ~proc.stderrEnded
    /\ proc' = [proc EXCEPT !.stderrEnded = TRUE]
    /\ UNCHANGED <<fixed, isTTY, pc, choice, activeIndex, activeIndexRef, rawMode,
                   flowing, handlers, session, spinner, spinnerIndex, frame, runs>>

ChildExits(code) ==
    /\ proc.state = "running"
    /\ proc' = [proc EXCEPT !.state = "exited", !.exitCode = code]
    /\ UNCHANGED <<fixed, isTTY, pc, choice, activeIndex, activeIndexRef, rawMode,
                   flowing, handlers, session, spinner, spinnerIndex, frame, runs>>

\* `running ${spinnerFrames[spinnerIndex % spinnerFrames.length]}`
SpinnerStatus(index) == "running " \o spinnerFrames[(index % Len(spinnerFrames)) + 1]

\* The setInterval callback of runSubcommand.
SpinnerTick ==
    /\ spinner
    /\ spinnerIndex < MaxTicks
    /\ LET ticked == [session EXCEPT !.lastStatus = Some(SpinnerStatus(spinnerIndex))]
       IN  /\ session' = ticked
           /\ frame' = IF isTTY THEN renderInteractiveMenu(activeIndexRef, ticked)
                       ELSE frame
    /\ spinnerIndex' = spinnerIndex + 1
    /\ UNCHANGED <<fixed, isTTY, pc, choice, activeIndex, activeIndexRef, rawMode,
                   flowing, handlers, proc, spinner, runs>>

\* A completion that forgets clearInterval(spinner).
RunCompletesKeepsSpinner ==
    /\ pc = "running"
    /\ RunSettled
    /\ spinner' = spinner
    /\ spinnerIndex' = spinnerIndex
    /\ session' = [session EXCEPT
            !.lastStatus = Some(RunResult(proc).status),
            !.lastOutputLines = RunResult(proc).outputLines]
    /\ proc' = NoProc
    /\ pc' = "loop"
    /\ UNCHANGED <<fixed, isTTY, choice, activeIndex, activeIndexRef, rawMode, flowing,
                   handlers, frame, runs>>

\* The await of runSubcommand settles: the spinner is cleared, the output
\* decoded, and cmdTui stores the result in the session.
RunCompletes ==
    /\ pc = "running"
    /\ RunSettled
    /\ spinner' = FALSE
    /\ spinnerIndex' = 0
    /\ session' = [session EXCEPT
            !.lastStatus = Some(RunResult(proc).status),
            !.lastOutputLines = RunResult(proc).outputLines]
    /\ proc' = NoProc
    /\ pc' = "loop"
    /\ UNCHANGED <<fixed, isTTY, choice, activeIndex, activeIndexRef, rawMode, flowing,
                   handlers, frame, runs>>

---------------------------------------------------------------------------

Next ==
    \/ SelectOptionText
    \/ \E line \in MenuLines : SelectLine(line)
    \/ SelectOptionRaw
    \/ \E ev \in KeyEvents : Keypress(ev)
    \/ \E ev \in InterruptKeys : KeypressUnheard(ev)
    \/ Exit
    \/ UnknownOption
    \/ AskArgument
    \/ \E line \in PromptLines : AnswerPrompt(line)
    \/ \E line \in PromptLines : RequiredFieldBlank(line)
    \/ RunHelp
    \/ \E chunk \in StdoutChunks : ChildWritesStdout(chunk)
    \/ \E chunk \in StderrChunks : ChildWritesStderr(chunk)
    \/ StdoutEnds
    \/ StderrEnds
    \/ \E code \in ExitCodes : ChildExits(code)
    \/ SpinnerTick
    \/ RunCompletes

Spec == Init /\ [][Next]_vars

---------------------------------------------------------------------------
(* The output of a run under load: the dashboard driven through its text  *)
(* menu to the help run, with children that write long and awkward        *)
(* streams.                                                                *)

\* The number of lines of the longest output considered.
LongRun == 1201

\* A child that prints the numbers 1..n, one per line.
Block(n) == [i \in 1..(2 * n) |-> IF i % 2 = 1 THEN ToString((i + 1) \div 2) ELSE "\n"]

\* A stdout line whose own text starts like the tag of a stderr line.
TagLookalike == StderrTag \o <<"x", "\n">>

\* "\x1b[31merror\x1b[0m\x1b]0;title\x07\r" followed by a line feed.
ColouredLine ==
    <<"ESC", "[", "3", "1", "m", "e", "r", "r", "o", "r", "ESC", "[", "0", "m",
      "ESC", "]", "0", ";", "t", "i", "t", "l", "e", "BEL", "\r", "\n">>

LoadStdoutChunks == {Block(OutputCap + 1), Block(LongRun), TagLookalike \o ColouredLine}
LoadStderrChunks == {<<"n", "o", "\n">>}

\* The lines typed at the text menu: help, and exit.
LoadMenuLines == {<<"?">>, <<"0">>}

InitLoad == Init /\ ~isTTY

NextLoad ==
    \/ SelectOptionText
    \/ \E line \in LoadMenuLines : SelectLine(line)
    \/ Exit
    \/ RunHelp
    \/ \E chunk \in LoadStdoutChunks : ChildWritesStdout(chunk)
    \/ \E chunk \in LoadStderrChunks : ChildWritesStderr(chunk)
    \/ StdoutEnds
    \/ StderrEnds
    \/ ChildExits(0)
    \/ SpinnerTick
    \/ RunCompletes

SpecLoad == InitLoad /\ [][NextLoad]_vars

---------------------------------------------------------------------------
(* The argument prompts: the dashboard driven through its text menu to the *)
(* five actions that ask for an argument, with children that print         *)
(* nothing and exit with 0.                                                *)

\* The lines typed at the text menu: the five actions, and exit.
ArgumentMenuLines == {<<"1">>, <<"2">>, <<"3">>, <<"4">>, <<"5">>, <<"0">>}

\* The lines typed at an argument prompt: nothing, a lone @, a name with two
\* @ before it, and a padded word.
ArgumentLines == { <<>>, <<"@">>, <<"@", "@", "b">>, <<" ", "a", " ">> }

InitArguments == Init /\ ~isTTY

NextArguments ==
    \/ SelectOptionText
    \/ \E line \in ArgumentMenuLines : SelectLine(line)
    \/ Exit
    \/ AskArgument
    \/ \E line \in ArgumentLines : AnswerPrompt(line)
    \/ \E line \in ArgumentLines : RequiredFieldBlank(line)
    \/ StdoutEnds
    \/ StderrEnds
    \/ ChildExits(0)
    \/ RunCompletes

SpecArguments == InitArguments /\ [][NextArguments]_vars

---------------------------------------------------------------------------
(* A run whose await fails: the help run through the text menu or the      *)
(* dashboard, with a pipe that may fail to be read.                        *)

\* await Promise.all([...]) rejects: runSubcommand throws before it reaches
\* clearInterval(spinner), the catch of cmdTui prints the message, and the
\* loop goes on.
RunRejects ==
    /\ pc = "running"
    /\ ~RunSettled
    /\ proc' = NoProc
    /\ pc' = "loop"
    /\ UNCHANGED <<fixed, isTTY, choice, activeIndex, activeIndexRef, rawMode, flowing,
                   handlers, session, spinner, spinnerIndex, frame, runs>>

NextFailing ==
    \/ SelectOptionText
    \/ \E line \in LoadMenuLines : SelectLine(line)
    \/ SelectOptionRaw
    \/ \E ev \in {KeyDown, KeyChar("6"), KeyChar("q")} : Keypress(ev)
    \/ Exit
    \/ RunHelp
    \/ \E chunk \in StdoutChunks : ChildWritesStdout(chunk)
    \/ StdoutEnds
    \/ StderrEnds
    \/ ChildExits(0)
    \/ SpinnerTick
    \/ RunCompletes
    \/ RunRejects

SpecFailing == Init /\ [][NextFailing]_vars

---------------------------------------------------------------------------
(* The frames of the interactive menu: the dashboard on a TTY of any size, *)
(* driven with the Down key, the help key, the quit key and the digits.    *)

TerminalColumns == {60, DefaultColumns}
TerminalRows == {10, DefaultRows}

\* The keys struck at the menu.
RenderKeys == {KeyDown, KeyChar("6"), KeyChar("q"), KeyChar("1"), KeyChar("2"), KeyChar("3")}

\* A child that fills more than a screen.
RenderStdoutChunks == {Block(DefaultRows)}

InitRender ==
    /\ Start
    /\ isTTY
    /\ columns \in TerminalColumns
    /\ rows \in TerminalRows
    /\ uiState = None
    /\ release = None
    /\ api = None

NextRender ==
    \/ SelectOptionRaw
    \/ \E ev \in RenderKeys : Keypress(ev)
    \/ Exit
    \/ RunHelp
    \/ \E chunk \in RenderStdoutChunks : ChildWritesStdout(chunk)
    \/ \E chunk \in StderrChunks : ChildWritesStderr(chunk)
    \/ StdoutEnds
    \/ StderrEnds
    \/ ChildExits(0)
    \/ SpinnerTick
    \/ RunCompletes

SpecRender == InitRender /\ [][NextRender]_vars

---------------------------------------------------------------------------
(* The output tab of the tabbed dashboard: the key handler of its menu and *)
(* the window it shows of one stream's lines, as src/lib/tui.test.ts calls *)
(* them and as the design document describes them.                         *)

\* Scrollback is followed up to this offset.
MaxOffset == 20

\* What page-up and page-down add to and take from outputOffset.
PageStep == 10

Min(a, b) == IF a <= b THEN a ELSE b

StdoutTag == <<"[", "s", "t", "d", "o", "u", "t", "]", " ">>

KeyTab == Key(<<"\t">>, "tab", FALSE)
KeyPageUp == Key(<<"ESC", "[", "5", "~">>, "pageup", FALSE)
KeyPageDown == Key(<<"ESC", "[", "6", "~">>, "pagedown", FALSE)
\* applyMenuKeyEvent("e", {}, uiState): the key object carries no name.
KeyStderrToggle == Key(<<"e">>, "", FALSE)

ViewKeys == {KeyStderrToggle, KeyTab, KeyPageUp, KeyPageDown, KeyReturn}

\* The sessions whose output is viewed: the one of the test, and one with more
\* lines than a viewport holds.
ViewSessions ==
    LET Out(text) == StdoutTag \o text
        Err(text) == StderrTag \o text
        Session(out, err) ==
            [ lastCommand |-> Some(<<"search", "ai">>), lastStatus |-> Some("success"),
              lastStdoutLines |-> out, lastStderrLines |-> err,
              lastOutputLines |-> out \o err ]
    IN  { Session(<<Out(<<"o", "k", " ", "1">>), Out(<<"o", "k", " ", "2">>)>>,
                  <<Err(<<"w", "a", "r", "n">>)>>),
          Session(<<Out(<<"o", "k", " ", "1">>), Out(<<"O", "K", " ", "2">>),
                    Out(<<"n", "o">>), Out(<<"o", "k", " ", "3">>),
                    Out(<<"O", "k", "a", "y">>), Out(<<"e", "n", "d">>)>>,
                  <<Err(<<"w", "a", "r", "n">>), Err(<<"O", "K", "?">>),
                    Err(<<"f", "a", "i", "l">>)>>) }

\* What was typed into the filter of the output tab.
ViewSearches == {<<>>, <<"o", "k">>, <<"z">>}

\* The heights outputViewLines is asked for.
ViewportHeights == {1, 2, 10}

\* The scrollback distances the view starts from.
StoredOffsets == {0, 2}

\* String.prototype.includes
Includes(text, part) ==
    \E i \in 1..(Len(text) - Len(part) + 1) : SubSeq(text, i, i + Len(part) - 1) = part

\* The lines of the buffer that the search keeps.
Filtered(buffer, searchQuery) ==
    IF searchQuery = <<>> THEN buffer
    ELSE SelectSeq(buffer, LAMBDA line : Includes(toLowerCase(line), toLowerCase(searchQuery)))

\* A window that trusts the stored offset.
visibleLinesUnclamped(buffer, searchQuery, offset, viewportHeight) ==
    LET filtered == Filtered(buffer, searchQuery)
        to == Len(filtered) - offset
        from == Max(1, to - viewportHeight + 1)
    IN  [ lines |-> IF to >= from THEN SubSeq(filtered, from, to) ELSE <<>>,
          offset |-> offset, from |-> from, to |-> to, total |-> Len(filtered) ]

visibleLines(buffer, searchQuery, offset, viewportHeight) ==
    LET filtered == Filtered(buffer, searchQuery)
        maxOffset == Max(0, Len(filtered) - viewportHeight)
        clamped == Min(Max(offset, 0), maxOffset)
        to == Len(filtered) - clamped
        from == Max(1, to - viewportHeight + 1)
    IN  [ lines |-> IF to >= from THEN SubSeq(filtered, from, to) ELSE <<>>,
          offset |-> clamped, from |-> from, to |-> to, total |-> Len(filtered) ]

\* The lines of the stream the output tab shows.
SelectedStream(s, ui) == IF ui.showStderr THEN s.lastStderrLines ELSE s.lastStdoutLines

\* outputViewLines(session, uiState, height): the stream, its line count and
\* the window on its lines.
outputViewLines(s, ui, height) ==
    [ stream |-> IF ui.showStderr THEN "stderr" ELSE "stdout",
      count |-> Len(SelectedStream(s, ui)),
      search |-> ui.outputSearch,
      stored |-> ui.outputOffset,
      height |-> height,
      view |-> visibleLines(SelectedStream(s, ui), ui.outputSearch, ui.outputOffset, height) ]

NextTab(tab) ==
    CASE tab = "commands" -> "output"
      [] tab = "output" -> "help"
      [] tab = "help" -> "commands"

\* A toggle that leaves the scrollback where it was.
ToggleStderrKeepsOffset(ui) ==
    [ui EXCEPT !.showStderr = ~@, !.tab = "output"]

ToggleStderr(ui) ==
    [ui EXCEPT !.showStderr = ~@, !.tab = "output", !.outputOffset = 0]

\* applyMenuKeyEvent(str, key, uiState): the uiState it leaves and what it
\* resolves the selection to, if anything.
applyMenuKeyEvent(ev, ui) ==
    CASE ev.str = <<"e">> ->
            [ui |-> ToggleStderr(ui), resolve |-> None]
      [] ev.name = "tab" ->
            [ui |-> [ui EXCEPT !.tab = NextTab(@)], resolve |-> None]
      [] ev.name = "pageup" ->
            [ui |-> IF ui.tab = "output"
                    THEN [ui EXCEPT !.outputOffset = @ + PageStep] ELSE ui,
             resolve |-> None]
      [] ev.name = "pagedown" ->
            [ui |-> IF ui.tab = "output"
                    THEN [ui EXCEPT !.outputOffset = Max(0, @ - PageStep)] ELSE ui,
             resolve |-> None]
      [] ev.name = "return" ->
            [ui |-> [ui EXCEPT !.tab = "output"],
             resolve |-> Some(MENU_OPTIONS[ui.activeIndex + 1].key)]
      [] OTHER -> [ui |-> ui, resolve |-> None]

InitView ==
    /\ isTTY = TRUE
    /\ pc = "menu"
    /\ choice = <<>>
    /\ activeIndex = 0
    /\ activeIndexRef = 0
    /\ rawMode = TRUE
    /\ flowing = TRUE
    /\ handlers = 1
    /\ session \in ViewSessions
    /\ proc = NoProc
    /\ spinner = FALSE
    /\ spinnerIndex = 0
    /\ frame = None
    /\ runs = 0
    /\ columns = DefaultColumns
    /\ rows = DefaultRows
    /\ uiState \in {Some([activeIndex |-> 0, tab |-> "commands", outputOffset |-> offset,
                          outputSearch |-> search, showStderr |-> FALSE]) :
                       offset \in StoredOffsets, search \in ViewSearches}
    /\ release = None
    /\ api = None

\* A key is struck at the menu of the tabbed dashboard.
MenuKeyEvent(ev) ==
    /\ pc = "menu"
    /\ IsSome(uiState)
    /\ applyMenuKeyEvent(ev, Get(uiState)).ui.outputOffset <= MaxOffset
    /\ uiState' = Some(applyMenuKeyEvent(ev, Get(uiState)).ui)
    /\ IF IsSome(applyMenuKeyEvent(ev, Get(uiState)).resolve)
       THEN /\ choice' = Get(applyMenuKeyEvent(ev, Get(uiState)).resolve)
            /\ pc' = "chosen"
       ELSE UNCHANGED <<choice, pc>>
    /\ UNCHANGED <<columns, rows, release, api, isTTY, activeIndex, activeIndexRef, rawMode,
                   flowing, handlers, session, proc, spinner, spinnerIndex, frame, runs>>

\* The output tab is drawn at some height.
OutputView(height) ==
    /\ IsSome(uiState)
    /\ frame' = Some(outputViewLines(session, Get(uiState), height))
    /\ UNCHANGED <<fixed, isTTY, pc, choice, activeIndex, activeIndexRef, rawMode, flowing,
                   handlers, session, proc, spinner, spinnerIndex, runs>>

NextView ==
    \/ \E ev \in ViewKeys : MenuKeyEvent(ev)
    \/ \E height \in ViewportHeights : OutputView(height)

SpecView == InitView /\ [][NextView]_vars

---------------------------------------------------------------------------
(* scripts/release.sh: the release pipeline of the two repositories.  The   *)
(* version string, the release notes and the tweet draft are left out: no  *)
(* step's effect on a repository depends on them.  A command other than a  *)
(* preflight check is taken to succeed.                                    *)

\* What cmdTui owns; the release script touches none of it.
tui == <<isTTY, pc, choice, activeIndex, activeIndexRef, rawMode, flowing, handlers,
         session, proc, spinner, spinnerIndex, frame, runs>>

REPO_NAME == "xint"
REPO_NAME_ALT == "xint-rs"

\* The options of the command line.
Flags ==
    {"--dry-run", "--ai-skill", "--docs", "--all", "--allow-dirty", "--skip-checks",
     "--force"}

\* The files the script looks for, as the two repositories hold them.
RepoFiles ==
    (REPO_NAME :> {"package.json", "README.md", "docs/CHANGELOG.md"})
        @@ (REPO_NAME_ALT :> {"Cargo.toml", "Cargo.lock", "README.md"})

\* The scripts of xint's package.json.
PackageScripts == {"lint", "test"}

\* The programs found on the PATH of the machine that cuts the release.
AllTools == {"jq", "bun", "cargo", "gh", "clawdhub", "npx"}
ToolSets == {AllTools, AllTools \ {"cargo"}, AllTools \ {"clawdhub", "gh"}}

\* The shell variables before the first argument is read.
ReleaseDefaults(args, installed) ==
    [ stage |-> "args", args |-> args, installed |-> installed,
      PUBLISH_CLAWDHUB |-> FALSE, PUBLISH_SKILLSH |-> FALSE, UPDATE_DOCS |-> FALSE,
      DRY_RUN |-> FALSE, ALLOW_DIRTY |-> FALSE, SKIP_CHECKS |-> FALSE, FORCE |-> FALSE,
      at |-> 1,         \* the step of the script that runs next
      failed |-> {},    \* the preflight checks that failed so far
      effects |-> {},   \* what was done to the repositories and the registries
      previewed |-> {}  \* what was printed as [dry-run] or "Would ..." instead
    ]

\* The while loop over "$@".
ParseArgs(rel) ==
    [rel EXCEPT
        !.stage = "running",
        !.args = {},
        !.DRY_RUN = "--dry-run" \in rel.args,
        !.PUBLISH_CLAWDHUB = "--ai-skill" \in rel.args \/ "--all" \in rel.args,
        !.PUBLISH_SKILLSH = "--ai-skill" \in rel.args \/ "--all" \in rel.args,
        !.UPDATE_DOCS = "--docs" \in rel.args \/ "--all" \in rel.args,
        !.ALLOW_DIRTY = "--allow-dirty" \in rel.args,
        !.SKIP_CHECKS = "--skip-checks" \in rel.args,
        !.FORCE = "--force" \in rel.args]

Step(op, repo, what) == [op |-> op, repo |-> repo, what |-> what]

has_package_script(rel, repo, script_name) ==
    /\ "package.json" \in RepoFiles[repo]
    /\ "jq" \in rel.installed
    /\ script_name \in PackageScripts

\* The checks and the tool look-ups of preflight_repo, in the order it makes them.
preflight_repo(rel, repo) ==
    LET clean ==
            IF rel.ALLOW_DIRTY THEN <<>>
            ELSE <<Step("run_check", repo, "has a clean working tree")>>
        js ==
            IF "package.json" \in RepoFiles[repo]
            THEN <<Step("command -v", repo, "bun")>>
                 \o (IF has_package_script(rel, repo, "lint")
                     THEN <<Step("run_check", repo, "lint")>> ELSE <<>>)
                 \o (IF has_package_script(rel, repo, "test")
                     THEN <<Step("run_check", repo, "tests (package script)")>>
                     ELSE <<Step("run_check", repo, "tests (bun test)")>>)
            ELSE <<>>
        rust ==
            IF "Cargo.toml" \in RepoFiles[repo]
            THEN <<Step("command -v", repo, "cargo"),
                   Step("run_check", repo, "cargo fmt --check"),
                   Step("run_check", repo, "cargo clippy -- -D warnings"),
                   Step("run_check", repo, "cargo test")>>
            ELSE <<>>
    IN  clean \o (IF rel.SKIP_CHECKS THEN <<>> ELSE js \o rust)

\* The steps of the script after its arguments are read, in order.
Pipeline(rel) ==
    LET Both(op) == <<Step(op, REPO_NAME, ""), Step(op, REPO_NAME_ALT, "")>>
    IN  preflight_repo(rel, REPO_NAME) \o preflight_repo(rel, REPO_NAME_ALT)
            \o Both("collect_release_files") \o Both("commit_repo") \o Both("push_repo")
            \o (IF rel.PUBLISH_CLAWDHUB THEN Both("publish_clawdhub") ELSE <<>>)
            \o (IF rel.PUBLISH_SKILLSH THEN Both("publish_skillsh") ELSE <<>>)
            \o Both("create_github_release")

AtStep(rel, op) ==
    /\ rel.stage = "running"
    /\ rel.at <= Len(Pipeline(rel))
    /\ Pipeline(rel)[rel.at].op = op

Current(rel) == Pipeline(rel)[rel.at]

Advance(rel) == [rel EXCEPT !.at = @ + 1]

die(rel) == [rel EXCEPT !.stage = "died"]

\* run and run_mutation_in_repo ignore the flag: the command runs.
run_always(rel, repo, command) ==
    [rel EXCEPT !.effects = @ \cup {<<command, repo>>}]

\* run and run_mutation_in_repo: the command is printed under --dry-run and
\* run otherwise.
run(rel, repo, command) ==
    IF rel.DRY_RUN
    THEN [rel EXCEPT !.previewed = @ \cup {<<command, repo>>}]
    ELSE [rel EXCEPT !.effects = @ \cup {<<command, repo>>}]

\* run_check carries on after a failed check whether or not --force is given.
run_check_lenient(rel, description, passed) ==
    IF passed THEN Advance(rel)
    ELSE Advance([rel EXCEPT !.failed = @ \cup {description}])

run_check(rel, description, passed) ==
    IF passed THEN Advance(rel)
    ELSE IF rel.FORCE
         THEN Advance([rel EXCEPT !.failed = @ \cup {description}])
         ELSE die([rel EXCEPT !.failed = @ \cup {description}])

\* The files collect_release_files rewrites in a repository.
Rewritten(rel, repo) ==
    (RepoFiles[repo] \cap {"package.json", "Cargo.toml", "pyproject.toml"})
        \cup (IF rel.UPDATE_DOCS
              THEN RepoFiles[repo] \cap {"README.md", "docs/CHANGELOG.md"} ELSE {})

collect_release_files(rel, repo) ==
    IF "package.json" \in RepoFiles[repo] /\ "jq" \notin rel.installed THEN die(rel)
    ELSE IF rel.DRY_RUN
         THEN Advance([rel EXCEPT
                 !.previewed = @ \cup {<<"write " \o file, repo>> : file \in Rewritten(rel, repo)}])
         ELSE Advance([rel EXCEPT
                 !.effects = @ \cup {<<"write " \o file, repo>> : file \in Rewritten(rel, repo)}])

commit_repo(rel, repo, staged) ==
    IF rel.DRY_RUN THEN Advance([rel EXCEPT !.previewed = @ \cup {<<"git commit", repo>>}])
    ELSE Advance([rel EXCEPT
            !.effects = @ \cup {<<"git add", repo>>}
                          \cup (IF staged THEN {<<"git commit", repo>>} ELSE {})])

InitRelease ==
    /\ Start
    /\ ~isTTY
    /\ columns = DefaultColumns
    /\ rows = DefaultRows
    /\ uiState = None
    /\ api = None
    /\ release \in {Some(ReleaseDefaults(args, installed)) :
                       args \in SUBSET Flags, installed \in ToolSets}

ReadArgs ==
    /\ IsSome(release)
    /\ Get(release).stage = "args"
    /\ release' = Some(ParseArgs(Get(release)))
    /\ UNCHANGED <<columns, rows, uiState, api, tui>>

\* run_check "$description" "$@": the check passes or fails.
RunCheck(passed) ==
    /\ IsSome(release)
    /\ AtStep(Get(release), "run_check")
    /\ release' = Some(run_check(Get(release),
                                 Current(Get(release)).repo \o " " \o Current(Get(release)).what,
                                 passed))
    /\ UNCHANGED <<columns, rows, uiState, api, tui>>

\* command -v bun >/dev/null 2>&1 || die "bun is required ...", and cargo's.
RequireTool ==
    /\ IsSome(release)
    /\ AtStep(Get(release), "command -v")
    /\ release' = Some(IF Current(Get(release)).what \in Get(release).installed
                       THEN Advance(Get(release)) ELSE die(Get(release)))
    /\ UNCHANGED <<columns, rows, uiState, api, tui>>

CollectReleaseFiles ==
    /\ IsSome(release)
    /\ AtStep(Get(release), "collect_release_files")
    /\ release' = Some(collect_release_files(Get(release), Current(Get(release)).repo))
    /\ UNCHANGED <<columns, rows, uiState, api, tui>>

\* git diff --cached --quiet finds staged changes or none.
CommitRepo(staged) ==
    /\ IsSome(release)
    /\ AtStep(Get(release), "commit_repo")
    /\ release' = Some(commit_repo(Get(release), Current(Get(release)).repo, staged))
    /\ UNCHANGED <<columns, rows, uiState, api, tui>>

PushRepo ==
    /\ IsSome(release)
    /\ AtStep(Get(release), "push_repo")
    /\ release' = Some(Advance(run(Get(release), Current(Get(release)).repo, "git push")))
    /\ UNCHANGED <<columns, rows, uiState, api, tui>>

PublishClawdhub ==
    /\ IsSome(release)
    /\ AtStep(Get(release), "publish_clawdhub")
    /\ release' = Some(IF "clawdhub" \in Get(release).installed
                       THEN Advance(run(Get(release), Current(Get(release)).repo,
                                        "clawdhub publish"))
                       ELSE Advance(Get(release)))
    /\ UNCHANGED <<columns, rows, uiState, api, tui>>

PublishSkillsh ==
    /\ IsSome(release)
    /\ AtStep(Get(release), "publish_skillsh")
    /\ release' = Some(IF "npx" \in Get(release).installed
                       THEN Advance(run(Get(release), Current(Get(release)).repo,
                                        "npx skills add"))
                       ELSE Advance(Get(release)))
    /\ UNCHANGED <<columns, rows, uiState, api, tui>>

CreateGithubRelease ==
    /\ IsSome(release)
    /\ AtStep(Get(release), "create_github_release")
    /\ release' = Some(IF "gh" \in Get(release).installed
                       THEN Advance(run(Get(release), Current(Get(release)).repo,
                                        "gh release create"))
                       ELSE Advance(Get(release)))
    /\ UNCHANGED <<columns, rows, uiState, api, tui>>

\* log "Release pipeline complete"
PipelineComplete ==
    /\ IsSome(release)
    /\ Get(release).stage = "running"
    /\ Get(release).at > Len(Pipeline(Get(release)))
    /\ release' = Some([Get(release) EXCEPT !.stage = "complete"])
    /\ UNCHANGED <<columns, rows, uiState, api, tui>>

NextRelease ==
    \/ ReadArgs
    \/ \E passed \in BOOLEAN : RunCheck(passed)
    \/ RequireTool
    \/ CollectReleaseFiles
    \/ \E staged \in BOOLEAN : CommitRepo(staged)
    \/ PushRepo
    \/ PublishClawdhub
    \/ PublishSkillsh
    \/ CreateGithubRelease
    \/ PipelineComplete

SpecRelease == InitRelease /\ [][NextRelease]_vars

---------------------------------------------------------------------------
(* package_api_server.ts: the request handler of the local package API.    *)
(* A handler loads the store file when its request arrives, may wait for    *)
(* the request body, and writes the store file back before it answers.      *)
(* Packages keep their tenant, policy and snapshot version; events keep     *)
(* their type and subject.  The caps of 5000 audit events and 20000 usage   *)
(* events are out of reach of the request counts considered.                *)

\* Requests received during one run of the server.
MaxRequests == 2

DEFAULT_WORKSPACE_ID == "ws_local"

PLAN_CATALOG ==
    [ free |-> [features |-> [shared_publish |-> FALSE], limits |-> [max_packages |-> 3]],
      pro |-> [features |-> [shared_publish |-> TRUE], limits |-> [max_packages |-> 100]],
      team |-> [features |-> [shared_publish |-> TRUE], limits |-> [max_packages |-> 1000]],
      enterprise |-> [features |-> [shared_publish |-> TRUE],
                      limits |-> [max_packages |-> 10000]] ]

\* The values of XINT_PACKAGE_API_PLAN the server is started with.
PlanSettings == {"free", "pro"}

\* The values of the x-workspace-id header, the default one standing for its
\* absence too.
WorkspaceIds == {DEFAULT_WORKSPACE_ID, "ws_b"}

\* `pkg_${randomUUID().slice(0, 8)}`: the identifiers in the order they are
\* drawn, no two alike.
PackageIdsDrawn == <<"pkg_d", "pkg_e", "pkg_f">>

\* The package identifiers requests name.
PackageIdsAsked == {"pkg_a", "pkg_c", "pkg_d"}

NoPackages == [id \in {} |-> id]

\* makeEntitlements(plan) and the usage counters of a new workspace.
NewWorkspace(plan) ==
    [ entitlements |-> [plan |-> plan, features |-> PLAN_CATALOG[plan].features,
                        limits |-> PLAN_CATALOG[plan].limits],
      usage |-> [package_create_count |-> 0, package_query_count |-> 0,
                 package_refresh_count |-> 0, package_publish_count |-> 0] ]

Package(tenant, policy, version) ==
    [tenant_id |-> tenant, policy |-> policy, latest_snapshot_version |-> version]

\* loadStore() when the store file is missing or unreadable.
EmptyStore ==
    [packages |-> NoPackages, audit_events |-> <<>>, workspaces |-> NoPackages,
     usage_events |-> <<>>]

\* A store file left by earlier runs: two packages of the local workspace and
\* one, published where the plan allows it, of the other.
SeededStore(plan) ==
    [ packages |->
          ("pkg_a" :> Package(DEFAULT_WORKSPACE_ID, "private", 1))
              @@ ("pkg_b" :> Package(DEFAULT_WORKSPACE_ID, "private", 2))
              @@ ("pkg_c" :> Package("ws_b",
                                     IF PLAN_CATALOG[plan].features.shared_publish
                                     THEN "shared" ELSE "private", 1)),
      audit_events |-> <<>>,
      workspaces |-> [w \in WorkspaceIds |-> NewWorkspace(plan)],
      usage_events |-> <<>> ]

\* store.audit_events.unshift({type, details})
addAuditEvent(store, type, subject) ==
    [store EXCEPT !.audit_events = <<<<type, subject>>>> \o @]

\* store.usage_events.unshift({workspace_id, operation})
addUsageEvent(store, workspaceId, operation) ==
    [store EXCEPT !.usage_events = <<<<workspaceId, operation>>>> \o @]

\* ensureWorkspaceStore and resolveWorkspace: the loaded store with the
\* default workspace and the requested one in it.
resolveWorkspace(store, requested, plan) ==
    [store EXCEPT !.workspaces =
        [w \in DOMAIN store.workspaces \cup {DEFAULT_WORKSPACE_ID, requested} |->
            IF w \in DOMAIN store.workspaces THEN store.workspaces[w]
            ELSE NewWorkspace(plan)]]

\* A count that sees no package.
countNoPackages(store, workspaceId) == 0

countPackagesForWorkspace(store, workspaceId) ==
    Cardinality({id \in DOMAIN store.packages : store.packages[id].tenant_id = workspaceId})

bumpWorkspaceUsage(store, workspaceId, key) ==
    [store EXCEPT !.workspaces[workspaceId].usage[key] = @ + 1]

\* const pkg = store.packages[packageId]; if (!pkg || pkg.tenant_id !== workspace.id)
Owned(store, workspaceId, packageId) ==
    packageId \in DOMAIN store.packages
        /\ store.packages[packageId].tenant_id = workspaceId

\* What a handler does when it ends: the store it writes with saveStore, if
\* it writes one, the status it answers with, and what the answer
\* acknowledges.
Outcome(saved, status, acknowledged) ==
    [saved |-> saved, status |-> status, acknowledged |-> acknowledged]

\* An error answer that writes the handler's store first.
RejectsSaving(store, status) == Outcome(Some(store), status, {})

\* sendJson(res, status, {error}); return;  for the statuses of an error.
Rejects(store, status) == Outcome(None, status, {})

\* GET endpoints that answer from the loaded store and write nothing.
Answers(status) == Outcome(None, status, {})

\* POST /v1/packages after the body has been read.
createPackage(store, workspaceId, body, packageId) ==
    IF body = "malformed" THEN Rejects(store, 500)
    ELSE IF body = "missing fields" THEN Rejects(store, 400)
    ELSE IF countPackagesForWorkspace(store, workspaceId)
                >= store.workspaces[workspaceId].entitlements.limits.max_packages
         THEN Rejects(store, 402)
         ELSE Outcome(
                 Some(addUsageEvent(
                     bumpWorkspaceUsage(
                         addAuditEvent(
                             [store EXCEPT !.packages =
                                 (packageId :> Package(workspaceId, body, 1)) @@ @],
                             "package.created", packageId),
                         workspaceId, "package_create_count"),
                     workspaceId, "package.create")),
                 202, {<<"created", packageId, 1>>})

\* GET /v1/packages/search
searchPackages(store, workspaceId, q) ==
    IF q = "" THEN Rejects(store, 400)
    ELSE Outcome(Some(addUsageEvent(store, workspaceId, "package.search")), 200, {})

\* GET /v1/packages/:id
getPackage(store, workspaceId, packageId) ==
    IF ~Owned(store, workspaceId, packageId) THEN Rejects(store, 404)
    ELSE Outcome(Some(addUsageEvent(store, workspaceId, "package.status")), 200, {})

\* GET /v1/packages/:id/snapshots
getSnapshots(store, workspaceId, packageId) ==
    IF ~Owned(store, workspaceId, packageId) THEN Rejects(store, 404) ELSE Answers(200)

\* POST /v1/packages/:id/refresh after the body has been read.
refreshPackage(store, workspaceId, packageId, body) ==
    IF body = "malformed" THEN Rejects(store, 500)
    ELSE LET nextVersion == store.packages[packageId].latest_snapshot_version + 1
         IN  Outcome(
                 Some(addUsageEvent(
                     bumpWorkspaceUsage(
                         addAuditEvent(
                             [store EXCEPT
                                 !.packages[packageId].latest_snapshot_version = nextVersion],
                             "package.refreshed", packageId),
                         workspaceId, "package_refresh_count"),
                     workspaceId, "package.refresh")),
                 202, {<<"refreshed", packageId, nextVersion>>})

\* POST /v1/packages/:id/publish after the body has been read.
publishPackage(store, workspaceId, packageId, body) ==
    IF body = "malformed" THEN Rejects(store, 500)
    ELSE Outcome(
             Some(addUsageEvent(
                 bumpWorkspaceUsage(
                     addAuditEvent([store EXCEPT !.packages[packageId].policy = "shared"],
                                   "package.published", packageId),
                     workspaceId, "package_publish_count"),
                 workspaceId, "package.publish")),
             200, {})

\* POST /v1/packages/:id/unpublish
unpublishPackage(store, workspaceId, packageId) ==
    IF packageId \notin DOMAIN store.packages THEN Rejects(store, 404)
    ELSE Outcome(
             Some(addAuditEvent([store EXCEPT !.packages[packageId].policy = "private"],
                                "package.unpublished", packageId)),
             200, {})

\* POST /v1/query after the body has been read; the body names one package.
queryPackages(store, workspaceId, body) ==
    IF body = "malformed" THEN Rejects(store, 500)
    ELSE IF body = "missing fields" THEN Rejects(store, 400)
    ELSE IF ~Owned(store, workspaceId, body) THEN Rejects(store, 404)
    ELSE Outcome(
             Some(addUsageEvent(
                 bumpWorkspaceUsage(addAuditEvent(store, "package.query", body),
                                    workspaceId, "package_query_count"),
                 workspaceId, "package.query")),
             200, {})

\* POST /v1/governance/delete after the body has been read.
governanceDelete(store, workspaceId, body) ==
    IF body = "malformed" THEN Rejects(store, 500)
    ELSE IF body \in DOMAIN store.packages
         THEN Outcome(
                  Some(addAuditEvent(
                      [store EXCEPT !.packages =
                          [id \in DOMAIN store.packages \ {body} |-> store.packages[id]]],
                      "governance.delete", body)),
                  202, {<<"deleted", body, 0>>})
         ELSE Outcome(None, 202, {})

\* The server when it starts to listen.
ApiStart(plan, apiKeySet, store) ==
    [ plan |-> plan,            \* process.env.XINT_PACKAGE_API_PLAN
      apiKeySet |-> apiKeySet,  \* process.env.XINT_PACKAGE_API_KEY is set
      store |-> store,          \* the store file
      waiting |-> {},           \* the handlers suspended in readJsonBody
      received |-> 0,           \* requests received so far
      drawn |-> 0,              \* package identifiers drawn so far
      last |-> None,            \* the request answered last
      acknowledged |-> {} ]     \* what the success answers so far acknowledged

InitApi ==
    /\ Start
    /\ ~isTTY
    /\ columns = DefaultColumns
    /\ rows = DefaultRows
    /\ uiState = None
    /\ release = None
    /\ api \in UNION {{Some(ApiStart(plan, apiKeySet, EmptyStore)),
                        Some(ApiStart(plan, apiKeySet, SeededStore(plan)))} :
                          plan \in PlanSettings, apiKeySet \in BOOLEAN}

\* The handler ends: saveStore if it has a store to write, then sendJson.
Ended(a, n, workspaceId, outcome) ==
    [a EXCEPT
        !.store = IF IsSome(outcome.saved) THEN Get(outcome.saved) ELSE @,
        !.last = Some([n |-> n, workspace |-> workspaceId, status |-> outcome.status]),
        !.drawn = @ + Cardinality({k \in outcome.acknowledged : k[1] = "created"}),
        !.acknowledged = @ \cup outcome.acknowledged]

\* A request arrives: requireAuthIfConfigured passes, the store is loaded and
\* the workspace resolved.
Loaded(a, workspaceId) == resolveWorkspace(a.store, workspaceId, a.plan)

Receivable == IsSome(api) /\ Get(api).received < MaxRequests

Received(a) == [a EXCEPT !.received = @ + 1]

\* A handler that runs from its request to its answer without waiting.
Handles(workspaceId, outcome) ==
    /\ Receivable
    /\ api' = Some(Ended(Received(Get(api)), Get(api).received + 1, workspaceId, outcome))
    /\ UNCHANGED <<columns, rows, uiState, release, tui>>

\* A handler that runs up to `await readJsonBody(req)`.
Suspends(endpoint, workspaceId, packageId) ==
    /\ Receivable
    /\ api' = Some([Received(Get(api)) EXCEPT
            !.waiting = @ \cup {[n |-> Get(api).received + 1, endpoint |-> endpoint,
                                 workspace |-> workspaceId, package |-> packageId,
                                 store |-> Loaded(Get(api), workspaceId)]}])
    /\ UNCHANGED <<columns, rows, uiState, release, tui>>

\* The body of a suspended handler's request has arrived: the handler runs to
\* its answer.
Resumes(h, outcome) ==
    /\ IsSome(api)
    /\ h \in Get(api).waiting
    /\ api' = Some(Ended([Get(api) EXCEPT !.waiting = @ \ {h}], h.n, h.workspace, outcome))
    /\ UNCHANGED <<columns, rows, uiState, release, tui>>

\* requireAuthIfConfigured answers 401: the Authorization header is not the
\* bearer token of the configured key.
Unauthorized(workspaceId) ==
    /\ IsSome(api)
    /\ Get(api).apiKeySet
    /\ Handles(workspaceId, Outcome(None, 401, {}))

PostPackages(workspaceId) == Suspends("create", workspaceId, "")

PostPackagesBody(h, body) ==
    /\ h.endpoint = "create"
    /\ Get(api).drawn < Len(PackageIdsDrawn)
    /\ Resumes(h, createPackage(h.store, h.workspace, body,
                                PackageIdsDrawn[Get(api).drawn + 1]))

GetSearch(workspaceId, q) ==
    /\ IsSome(api)
    /\ Handles(workspaceId, searchPackages(Loaded(Get(api), workspaceId), workspaceId, q))

GetPackage(workspaceId, packageId) ==
    /\ IsSome(api)
    /\ Handles(workspaceId,
               getPackage(Loaded(Get(api), workspaceId), workspaceId, packageId))

GetSnapshots(workspaceId, packageId) ==
    /\ IsSome(api)
    /\ Handles(workspaceId,
               getSnapshots(Loaded(Get(api), workspaceId), workspaceId, packageId))

PostRefresh(workspaceId, packageId) ==
    /\ IsSome(api)
    /\ IF Owned(Loaded(Get(api), workspaceId), workspaceId, packageId)
       THEN Suspends("refresh", workspaceId, packageId)
       ELSE Handles(workspaceId, Rejects(Loaded(Get(api), workspaceId), 404))

PostRefreshBody(h, body) ==
    /\ h.endpoint = "refresh"
    /\ Resumes(h, refreshPackage(h.store, h.workspace, h.package, body))

PostPublish(workspaceId, packageId) ==
    /\ IsSome(api)
    /\ LET store == Loaded(Get(api), workspaceId)
       IN  IF ~Owned(store, workspaceId, packageId)
           THEN Handles(workspaceId, Rejects(store, 404))
           ELSE IF ~store.workspaces[workspaceId].entitlements.features.shared_publish
                THEN Handles(workspaceId, Rejects(store, 403))
                ELSE Suspends("publish", workspaceId, packageId)

PostPublishBody(h, body) ==
    /\ h.endpoint = "publish"
    /\ Resumes(h, publishPackage(h.store, h.workspace, h.package, body))

PostUnpublish(workspaceId, packageId) ==
    /\ IsSome(api)
    /\ Handles(workspaceId,
               unpublishPackage(Loaded(Get(api), workspaceId), workspaceId, packageId))

PostQuery(workspaceId) == Suspends("query", workspaceId, "")

PostQueryBody(h, body) ==
    /\ h.endpoint = "query"
    /\ Resumes(h, queryPackages(h.store, h.workspace, body))

\* GET /v1/audit/events, /v1/billing/entitlements and /v1/billing/usage.
GetReport(workspaceId) == Handles(workspaceId, Answers(200))

PostGovernanceDelete(workspaceId) == Suspends("delete", workspaceId, "")

PostGovernanceDeleteBody(h, body) ==
    /\ h.endpoint = "delete"
    /\ Resumes(h, governanceDelete(h.store, h.workspace, body))

\* sendJson(res, 404, { error: "Not found" })
NoRoute(workspaceId) ==
    /\ IsSome(api)
    /\ Handles(workspaceId, Rejects(Loaded(Get(api), workspaceId), 404))

\* The bodies of requests, a package's policy or identifier standing for a
\* well-formed body that carries it.
CreateBodies == {"malformed", "missing fields", "private", "shared"}
PlainBodies == {"malformed", "{}"}
QueryBodies == {"malformed", "missing fields"} \cup PackageIdsAsked
DeleteBodies == {"malformed", "{}"} \cup PackageIdsAsked

Waiting == IF IsSome(api) THEN Get(api).waiting ELSE {}

NextApi ==
    \/ \E w \in WorkspaceIds : Unauthorized(w)
    \/ \E w \in WorkspaceIds : PostPackages(w)
    \/ \E h \in Waiting, body \in CreateBodies : PostPackagesBody(h, body)
    \/ \E w \in WorkspaceIds, q \in {"", "ai"} : GetSearch(w, q)
    \/ \E w \in WorkspaceIds, id \in PackageIdsAsked : GetPackage(w, id)
    \/ \E w \in WorkspaceIds, id \in PackageIdsAsked : GetSnapshots(w, id)
    \/ \E w \in WorkspaceIds, id \in PackageIdsAsked : PostRefresh(w, id)
    \/ \E h \in Waiting, body \in PlainBodies : PostRefreshBody(h, body)
    \/ \E w \in WorkspaceIds, id \in PackageIdsAsked : PostPublish(w, id)
    \/ \E h \in Waiting, body \in PlainBodies : PostPublishBody(h, body)
    \/ \E w \in WorkspaceIds, id \in PackageIdsAsked : PostUnpublish(w, id)
    \/ \E w \in WorkspaceIds : PostQuery(w)
    \/ \E h \in Waiting, body \in QueryBodies : PostQueryBody(h, body)
    \/ \E w \in WorkspaceIds : GetReport(w)
    \/ \E w \in WorkspaceIds : PostGovernanceDelete(w)
    \/ \E h \in Waiting, body \in DeleteBodies : PostGovernanceDeleteBody(h, body)
    \/ \E w \in WorkspaceIds : NoRoute(w)

SpecApi == InitApi /\ [][NextApi]_vars

---------------------------------------------------------------------------
(* Properties.                                                             *)

\* A text-capture session is open: an rl.question is awaiting its line.
TextCapturePending == pc \in {"selectLine", "prompt"}

\* lastStatus shows a run in progress.
IsRunningStatus(status) ==
    status \in {Some("running |"), Some("running /"), Some("running -"),
                Some("running \\")}

\* The lines the child has completely written on its standard output.
WrittenStdoutLines == decodeLines(proc.stdout)

\* C1: whenever control is anywhere but inside a menu selection session (the
\* session has ended by confirm, interrupt or a typed key/alias, or none was
\* opened), raw mode is off and no menu keypress handler is attached.
C1_RawModeRestored ==
    pc # "menu" => (~rawMode /\ handlers = 0)

\* A menu session that a typed alias ended while entry 4 was highlighted.
C1_Witness ==
    /\ isTTY
    /\ pc = "chosen"
    /\ choice = <<"1">>
    /\ activeIndexRef = 3

\* C2: the menu keypress handler and a text-capture session (a line prompt)
\* are never attached to the keyboard at the same time.
C2_OneKeyboardConsumer ==
    ~(handlers > 0 /\ TextCapturePending)

\* An argument prompt opened after an interactive menu session.
C2_Witness ==
    /\ isTTY
    /\ pc = "prompt"
    /\ choice = <<"3">>

\* C3: raw-mode setup is only performed while raw mode is off and no handler
\* is attached, and at most one menu keypress handler is attached at any time.
C3_NoRawModeReentry ==
    /\ [](handlers <= 1)
    /\ [][SelectOptionRaw => (~rawMode /\ handlers = 0)]_vars

\* A second menu session, opened after a subprocess run.
C3_Witness ==
    /\ pc = "menu"
    /\ rawMode
    /\ handlers = 1
    /\ runs >= 1

\* C4: activeIndex is always an index into the catalog; Up moves it one
\* position back and Down one position forward, wrapping at both ends.
C4_ActiveIndexWraps ==
    /\ [](activeIndex \in 0..(MenuLength - 1))
    /\ [][Keypress(KeyUp) =>
            activeIndex' = IF activeIndex = 0 THEN MenuLength - 1
                           ELSE activeIndex - 1]_vars
    /\ [][Keypress(KeyDown) =>
            activeIndex' = IF activeIndex = MenuLength - 1 THEN 0
                           ELSE activeIndex + 1]_vars

\* Up on the first entry of a fresh session has moved to the last entry.
C4_Witness ==
    /\ pc = "menu"
    /\ runs = 0
    /\ activeIndexRef = 0
    /\ activeIndex = MenuLength - 1

\* C5: the confirm key resolves the selection to the key of the action at
\* the handler's current activeIndex.
C5_ConfirmResolvesActive ==
    [][Keypress(KeyReturn) =>
         (pc' = "chosen" /\ choice' = MENU_OPTIONS[activeIndex + 1].key)]_vars

\* Confirm on the fourth entry, reached with Up/Down, resolved to Thread.
C5_Witness ==
    /\ isTTY
    /\ pc = "chosen"
    /\ choice = <<"4">>
    /\ activeIndexRef = 3

\* C6: an interrupt keystroke in the menu resolves at once to the terminate
\* sentinel whatever activeIndex is; on that sentinel the loop ends, and
\* nothing is spawned then or afterwards.
C6_InterruptTerminates ==
    /\ [][Keypress(KeyCtrlC) => (pc' = "chosen" /\ choice' = <<"0">>)]_vars
    /\ [][(pc = "chosen" /\ choice = <<"0">>) =>
            (pc' = "exited" /\ proc' = proc /\ runs' = runs)]_vars
    /\ [][pc = "exited" => (pc' = "exited" /\ proc' = proc /\ runs' = runs)]_vars

\* The loop has ended on an interrupt struck while the third entry was
\* highlighted (the shared reference was not written).
C6_Witness ==
    /\ pc = "exited"
    /\ runs = 0
    /\ activeIndex = 2
    /\ activeIndexRef = 0

C8_StreamedWhileRunning ==
    (pc = "running" /\ proc.state = "running") =>
        Range(WrittenStdoutLines) \subseteq Range(session.lastOutputLines)

C10_OutputResetAtRunStart ==
    (pc = "running" /\ IsRunningStatus(session.lastStatus)) =>
        Range(session.lastOutputLines) \subseteq Range(RunResult(proc).outputLines)

\* C11: when a run completes, lastStatus is "success" exactly when the child
\* exited with code 0 and "failed (exit <code>)" otherwise; a non-zero exit is
\* an ordinary completion: the lines the child wrote are recorded and control
\* is back in the loop.
C11_StatusFromExitCode ==
    [][(pc = "running" /\ pc' # "running") =>
         /\ pc' = "loop"
         /\ (session'.lastStatus = Some("success")) <=> (proc.exitCode = 0)
         /\ proc.exitCode = 1 => session'.lastStatus = Some("failed (exit 1)")
         /\ \A chunk \in StdoutChunks :
              proc.stdout = chunk =>
                 {<<"h", "i">>, <<"o", "k">>} \subseteq Range(session'.lastOutputLines)
         /\ \A chunk \in StderrChunks :
              proc.stderr = chunk =>
                 {StderrTag \o <<"n", "o">>, StderrTag \o <<"g", "o">>}
                     \subseteq Range(session'.lastOutputLines)]_vars

\* A run whose child exited with code 1 has completed with its lines recorded.
C11_Witness ==
    /\ pc = "loop"
    /\ session.lastStatus = Some("failed (exit 1)")
    /\ session.lastOutputLines =
          <<<<"h", "i">>, <<"o", "k">>, StderrTag \o <<"n", "o">>, StderrTag \o <<"g", "o">>>>

\* C12: in every reachable state the retained output holds at most 1200
\* lines, whatever the volume the child wrote.
C12_BufferBounded == Len(session.lastOutputLines) <= 1200

\* A run whose child printed LongRun lines has completed: the retained output
\* ends with the last line printed.
C12_Witness ==
    /\ pc = "loop"
    /\ session.lastOutputLines # <<>>
    /\ session.lastOutputLines[Len(session.lastOutputLines)] = <<ToString(LongRun)>>

\* The lines a child has written on its two streams, as the dashboard
\* decodes them.
WrittenStderrLines == decodeLines(proc.stderr)
WrittenCount == Len(WrittenStdoutLines) + Len(WrittenStderrLines)

\* C13: when a run completes whose child wrote N lines in total, the retained
\* output holds min(N, 1200) lines, and while N is at most 1200 every line
\* written is among them.
C13_MostRecentKept ==
    [][(pc = "running" /\ pc' = "loop") =>
         /\ Len(session'.lastOutputLines) =
                IF WrittenCount <= 1200 THEN WrittenCount ELSE 1200
         /\ WrittenCount <= 1200 =>
                /\ Range(WrittenStdoutLines) \subseteq Range(session'.lastOutputLines)
                /\ \A i \in 1..Len(WrittenStderrLines) :
                      (StderrTag \o WrittenStderrLines[i])
                          \in Range(session'.lastOutputLines)]_vars

\* A line that starts with the tag of the error stream.
HasStderrTag(line) ==
    Len(line) >= Len(StderrTag) /\ SubSeq(line, 1, Len(StderrTag)) = StderrTag

\* The text of a tagged line after its tag.
Untagged(line) == SubSeq(line, Len(StderrTag) + 1, Len(line))

\* The elements of a occur in b in the same order.
RECURSIVE IsSubsequence(_, _)
IsSubsequence(a, b) ==
    IF a = <<>> THEN TRUE
    ELSE IF b = <<>> THEN FALSE
    ELSE IF Head(a) = Head(b) THEN IsSubsequence(Tail(a), Tail(b))
    ELSE IsSubsequence(a, Tail(b))

\* C14: when a run completes, the retained lines of one stream stand in the
\* order in which the child wrote them on that stream: the retained stdout
\* lines, read in order, are picked in order from the lines written on
\* stdout, and likewise for stderr. Nothing is stated about the order
\* between a stdout line and a stderr line.
C14_StreamOrderKept ==
    [][(pc = "running" /\ pc' = "loop") =>
         LET kept == session'.lastOutputLines
             fromStderr == SelectSeq(kept, HasStderrTag)
         IN  /\ IsSubsequence(SelectSeq(kept, LAMBDA line : ~HasStderrTag(line)),
                              WrittenStdoutLines)
             /\ IsSubsequence([i \in 1..Len(fromStderr) |-> Untagged(fromStderr[i])],
                              WrittenStderrLines)]_vars

\* A run that wrote two lines on each stream has completed with all four
\* retained.
C14_Witness ==
    /\ pc = "loop"
    /\ session.lastStatus = Some("success")
    /\ Len(SelectSeq(session.lastOutputLines, HasStderrTag)) = 2
    /\ Len(SelectSeq(session.lastOutputLines, LAMBDA line : ~HasStderrTag(line))) = 2

\* C15: when a run completes, a retained line carries the tag of the error
\* stream exactly when it was read from stderr, whatever its text. The
\* retained lines are the last ones of the stdout lines followed by the stderr
\* lines, which tells the stream each was read from.
C15_TagIffStderr ==
    [][(pc = "running" /\ pc' = "loop") =>
         LET kept == session'.lastOutputLines
             dropped == WrittenCount - Len(kept)
         IN  \A k \in 1..Len(kept) :
                HasStderrTag(kept[k]) <=> (k + dropped > Len(WrittenStdoutLines))]_vars

\* C16: no retained line holds an escape character, another control
\* character or a carriage return.
C16_LinesSanitized ==
    \A k \in 1..Len(session.lastOutputLines) :
        Range(session.lastOutputLines[k]) \cap {"ESC", "BEL", "ETX", "\r", "\n", "\t"} = {}

\* C17: when a required prompt is answered with a blank line, lastStatus
\* becomes "error: <message>", the message being that of the failed
\* validation, and control is back in the loop.
C17_BlankSetsErrorStatus ==
    [][(pc = "prompt" /\ pc' # "prompt" /\ pc' # "running") =>
         /\ pc' = "loop"
         /\ session'.lastStatus =
                Some("error: " \o LabelOf(choice) \o " is required.")]_vars

\* C18: the dashboard ends only on a selection that resolved to the exit key;
\* a blank required field, an unknown choice and a completed run, whatever its
\* exit code, all lead back to the loop, where the menu is offered again.
C18_OnlyExitEndsLoop ==
    /\ [][(pc # "exited" /\ pc' = "exited") =>
            (pc = "chosen" /\ choice = <<"0">>)]_vars
    /\ [][((pc = "prompt" /\ pc' # "running")
             \/ (pc = "chosen" /\ choice = <<>>)
             \/ (pc = "running" /\ pc' # "running")) => pc' = "loop"]_vars
    /\ [](pc = "loop" => ENABLED (SelectOptionText \/ SelectOptionRaw))

\* The menu is open again after a run that failed.
C18_Witness ==
    /\ pc \in {"menu", "selectLine"}
    /\ session.lastStatus = Some("failed (exit 1)")

\* C19: when stdin is not a TTY the terminal is never in raw mode, no
\* keypress handler is attached and no interactive frame is drawn; from the
\* loop the text menu reads one line, the selection is what normalizeChoice
\* makes of that line (" S " selects Search, "x" and the empty line select
\* nothing), and an empty selection leads back to the loop with the session
\* untouched, where the line is asked for again.
C19_TextMenuFallback ==
    /\ [](~isTTY => (~rawMode /\ handlers = 0 /\ frame = None /\ pc # "menu"))
    /\ [][(~isTTY /\ pc = "loop") => pc' = "selectLine"]_vars
    /\ [][(~isTTY /\ pc = "selectLine") =>
            /\ pc' = "chosen"
            /\ SelectLine(<<" ", "S", " ">>) => choice' = <<"1">>
            /\ (SelectLine(<<"x">>) \/ SelectLine(<<>>)) => choice' = <<>>]_vars
    /\ [][(~isTTY /\ pc = "chosen" /\ choice = <<>>) =>
            (pc' = "loop" /\ session' = session)]_vars

\* Without a TTY, a line typed at the text menu has selected Search.
C19_Witness ==
    /\ ~isTTY
    /\ pc = "chosen"
    /\ choice = <<"1">>
    /\ session = InitialSession

\* The options one of whose identifiers is the text typed, trimmed and in
\* lower case.
Matching(raw) == {i \in 1..MenuLength : toLowerCase(trim(raw)) \in IdentifiersOf(i)}

\* For every line of the text menu, what normalizeChoice returns for it and
\* the keys of the options that match it.
Selected == [line \in MenuLines |-> normalizeChoice(line)]
MatchingKeys == [line \in MenuLines |-> {MENU_OPTIONS[i].key : i \in Matching(line)}]

\* No key or alias belongs to two options.
UniqueIdentifiers ==
    \A i, j \in 1..MenuLength : i # j => IdentifiersOf(i) \cap IdentifiersOf(j) = {}

\* C20: no identifier (key or alias) belongs to two options, and whenever the
\* text menu resolves a line, the selection is the key of the one option that
\* has the trimmed, lower-cased line among its identifiers, and empty when
\* there is no such option ("SEARCH" selects "1", " \tth " selects "4",
\* "QUIT" selects "0"; "se", "7" and "exit now" select nothing).
C20_NormalizeExact ==
    [][(pc = "selectLine" /\ pc' = "chosen") =>
         /\ UniqueIdentifiers
         /\ \A line \in MenuLines :
               choice' = Selected[line] =>
                  /\ Cardinality(MatchingKeys[line]) <= 1
                  /\ MatchingKeys[line] = {} => choice' = <<>>
                  /\ MatchingKeys[line] # {} => choice' \in MatchingKeys[line]
         /\ Selected[<<"S", "E", "A", "R", "C", "H">>] = <<"1">>
         /\ Selected[<<" ", "\t", "t", "h", " ">>] = <<"4">>
         /\ Selected[<<"Q", "U", "I", "T">>] = <<"0">>
         /\ Selected[<<"s", "e">>] = <<>>
         /\ Selected[<<"7">>] = <<>>
         /\ Selected[<<"e", "x", "i", "t", " ", "n", "o", "w">>] = <<>>]_vars

\* The text menu has resolved a line to the Thread option, which only an
\* alias or the key "4" selects.
C20_Witness ==
    /\ ~isTTY
    /\ pc = "chosen"
    /\ choice = <<"4">>
    /\ runs = 0

\* C25: every row of a frame drawn occupies no more columns than the
\* terminal has.
C25_RowsFitTerminal ==
    IsSome(frame) =>
        LET written == Written(Get(frame))
        IN  \A r \in 1..Len(written) : Len(written[r].text) <= Get(frame).columns

\* The line of the right pane that shows a status, padded as a frame shows it.
StatusCell(s, cols) ==
    padText("status: " \o (IF IsSome(s.lastStatus) THEN Get(s.lastStatus) ELSE "-"),
            RightWidth(cols))

\* The right-hand cell of a row of a frame.
RightCell(row, cols) == SubSeq(row.text, LeftWidth(cols) + 4, Len(row.text))

\* C26: every frame drawn has a row whose right-hand cell is the status line
\* with the lastStatus of the session it was drawn from.
C26_StatusLineShown ==
    IsSome(frame) =>
        LET written == Written(Get(frame))
            cols == Get(frame).columns
        IN  \E r \in 1..Len(written) :
               RightCell(written[r], cols) = StatusCell(Get(frame).session, cols)

ShownLines(f) ==
    LET written == Written(f)
        cells == {RightCell(written[r], f.columns) : r \in 1..Len(written)}
    IN  {k \in 1..Len(f.session.lastOutputLines) :
            padText(Str(f.session.lastOutputLines[k]), RightWidth(f.columns)) \in cells}

\* C22: the output lines a frame shows are lines of one stream: either none of
\* them carries the tag of the error stream or all of them do.
C22_ViewShowsOneStream ==
    IsSome(frame) =>
        LET f == Get(frame)
            tagged == {k \in ShownLines(f) : HasStderrTag(f.session.lastOutputLines[k])}
        IN  tagged = {} \/ tagged = ShownLines(f)

\* C24: at the interactive menu the digit keys 1, 2 and 3 resolve no
\* selection: the menu stays open and no choice is made.
C24_DigitKeysResolveNothing ==
    [][(pc = "menu" /\ \E digit \in {"1", "2", "3"} : Keypress(KeyChar(digit))) =>
          (pc' = "menu" /\ choice' = choice /\ handlers' = handlers)]_vars

\* C29: under --dry-run the release pipeline does nothing to the repositories
\* or the registries, whatever the other options: no manifest or document is
\* written and no git add, commit, push, publish or release-create is run.
C29_DryRunMutatesNothing ==
    (IsSome(release) /\ Get(release).DRY_RUN) => Get(release).effects = {}

\* A dry run went through the whole pipeline with all options on, and printed
\* the pushes and the releases it would have made.
C29_Witness ==
    /\ IsSome(release)
    /\ Get(release).DRY_RUN
    /\ Get(release).stage = "complete"
    /\ Get(release).PUBLISH_CLAWDHUB
    /\ Get(release).UPDATE_DOCS
    /\ {<<"git push", REPO_NAME>>, <<"git push", REPO_NAME_ALT>>,
        <<"gh release create", REPO_NAME>>, <<"clawdhub publish", REPO_NAME_ALT>>,
        <<"write README.md", REPO_NAME>>} \subseteq Get(release).previewed

\* C30: a failed preflight check without --force ends the pipeline with an
\* error before anything is bumped, committed, pushed, published or released
\* in either repository; with --force the pipeline carries on past it.
C30_PreflightGate ==
    /\ [](IsSome(release) =>
            ((Get(release).failed # {} /\ ~Get(release).FORCE) =>
                (Get(release).stage = "died" /\ Get(release).effects = {}
                    /\ Get(release).previewed = {})))
    /\ [][(\E passed \in BOOLEAN : RunCheck(passed)) =>
            (Get(release).FORCE => Get(release)'.stage = "running")]_vars

\* Without --force the first failed check, the lint of xint, ended the
\* pipeline.
C30_Witness ==
    /\ IsSome(release)
    /\ ~Get(release).FORCE
    /\ ~Get(release).DRY_RUN
    /\ Get(release).stage = "died"
    /\ Get(release).failed = {"xint lint"}
    /\ Get(release).effects = {}

\* The number of lines of a drawn view's stream that its search keeps.
FilteredCount(v) ==
    LET buffer == IF v.stream = "stderr" THEN session.lastStderrLines
                  ELSE session.lastStdoutLines
    IN  Cardinality({k \in 1..Len(buffer) :
            v.search = <<>> \/ Includes(toLowerCase(buffer[k]), toLowerCase(v.search))})

SpawnedArgument == IF Len(proc.args) >= 2 THEN proc.args[2] ELSE <<>>

\* C31: a blank answer to a prompt whose field holds an earlier value runs
\* the action with that earlier value.
C31_BlankUsesEarlierValue ==
    [][(/\ pc = "prompt"
        /\ IsSome(session[FieldOf(choice)])
        /\ Get(session[FieldOf(choice)]) # <<>>
        /\ AnswerPrompt(<<>>))
          => (/\ SpawnedArgument' = Get(session[FieldOf(choice)])
              /\ session'[FieldOf(choice)] = session[FieldOf(choice)])]_vars

\* C32: the spinner timer is armed only while a run is awaited: once the run
\* function has returned or thrown, no tick can follow.
C32_SpinnerStopsWithRun ==
    spinner => pc = "running"

\* C33: a blank answer to a required prompt whose field holds no earlier
\* value spawns no subprocess and leaves the session, with its last values,
\* lastCommand and output buffer, as it was.
C33_BlankRequiredChangesNothing ==
    [][(/\ pc = "prompt"
        /\ choice \in Required
        /\ ~IsSome(session[FieldOf(choice)])
        /\ \E line \in ArgumentLines :
              trim(line) = <<>> /\ (AnswerPrompt(line) \/ RequiredFieldBlank(line)))
          => (session' = session /\ runs' = runs /\ proc' = proc /\ pc' = "loop")]_vars

\* A required prompt was left blank in a session that has run nothing yet.
C33_Witness ==
    /\ pc = "loop"
    /\ choice \in Required
    /\ session = InitialSession
    /\ runs = 0
    /\ proc = NoProc
    /\ ~isTTY

\* C34: a blank answer to the Location prompt runs trends with no location
\* argument, whatever location the session holds.
C34_BlankLocationIsWorldwide ==
    [][(pc = "prompt" /\ choice = <<"2">> /\ AnswerPrompt(<<>>))
          => proc'.args = <<"trends">>]_vars

\* C35: the username of the session, which is the one passed to the profile
\* command, is not empty and does not begin with @.
C35_UsernameClean ==
    IsSome(session.lastUsername) =>
        /\ Get(session.lastUsername) # <<>>
        /\ Head(Get(session.lastUsername)) # "@"

\* No handler is suspended: every request received has been answered.
ApiQuiet == IsSome(api) /\ Get(api).waiting = {}

\* A request was answered in this step.
ApiAnswered == IsSome(api) /\ IsSome(api') /\ Get(api').last # Get(api).last

\* C36: a request made in a workspace leaves every package of another
\* workspace in the store file, unchanged.
C36_TenantIsolation ==
    [][ApiAnswered =>
          \A id \in DOMAIN Get(api).store.packages :
              Get(api).store.packages[id].tenant_id # Get(Get(api').last).workspace =>
                  /\ id \in DOMAIN Get(api').store.packages
                  /\ Get(api').store.packages[id] = Get(api).store.packages[id]]_vars

\* C37: once every request has been answered, each package whose creation was
\* acknowledged is in the store file and each refreshed package has at least
\* the acknowledged snapshot version, unless its deletion was acknowledged.
C37_AcknowledgedIsStored ==
    ApiQuiet =>
        \A k \in Get(api).acknowledged :
            (k[1] # "deleted" /\ <<"deleted", k[2], 0>> \notin Get(api).acknowledged) =>
                /\ k[2] \in DOMAIN Get(api).store.packages
                /\ Get(api).store.packages[k[2]].latest_snapshot_version >= k[3]

\* C38: a package of a workspace whose plan has no shared_publish feature
\* never has the policy "shared".
C38_SharedNeedsFeature ==
    IsSome(api) =>
        \A id \in DOMAIN Get(api).store.packages :
            LET pkg == Get(api).store.packages[id]
            IN  (pkg.policy = "shared" /\ pkg.tenant_id \in DOMAIN Get(api).store.workspaces) =>
                    Get(api).store.workspaces[pkg.tenant_id].entitlements.features.shared_publish

\* The packages a store holds for a workspace.
PackagesOf(store, workspaceId) ==
    {id \in DOMAIN store.packages : store.packages[id].tenant_id = workspaceId}

ErrorStatuses == {400, 401, 402, 403, 404, 500}

\* C40: a request answered with an error status leaves the store file as it
\* was; with an API key configured, a request without the matching bearer
\* token is answered 401.
C40_ErrorsWriteNothing ==
    /\ [][(ApiAnswered /\ Get(Get(api').last).status \in ErrorStatuses)
            => Get(api').store = Get(api).store]_vars
    /\ [][(\E w \in WorkspaceIds : Unauthorized(w))
            => (Get(api).apiKeySet /\ Get(Get(api').last).status = 401
                  /\ Get(api').waiting = Get(api).waiting)]_vars

\* A request without the token was answered 401 after an earlier request had
\* written a usage event to the store file.
C40_Witness ==
    /\ ApiQuiet
    /\ Get(api).apiKeySet
    /\ Get(api).received = 2
    /\ Get(Get(api).last).status = 401
    /\ Len(Get(api).store.usage_events) = 1

====
